---------------------------- MODULE Spec2Model ----------------------------
(***************************************************************************)
(* State-machine model of the gb-llm game collection: the clicker's SRAM   *)
(* save protocol, the per-frame main loops, the input edge detectors and   *)
(* the falling-block puzzle.  Each game is a group of variables with its   *)
(* own initial condition and next-state relation; a specification runs one *)
(* game and parks the variables of the others.                             *)
(***************************************************************************)
EXTENDS Integers, Sequences, FiniteSets, TLC

(***************************************************************************)
(* Controller bits (gb/gb.h; bit order of InputHost.read).                 *)
(***************************************************************************)
J_RIGHT == 1
J_LEFT == 2
J_UP == 4
J_DOWN == 8
J_A == 16
J_B == 32
J_SELECT == 64
J_START == 128

(***************************************************************************)
(* C integer arithmetic on 8- and 16-bit values.                           *)
(***************************************************************************)
RECURSIVE BitAnd(_, _, _)
BitAnd(a, b, w) ==
    IF w = 0 THEN 0
    ELSE (a % 2) * (b % 2) + 2 * BitAnd(a \div 2, b \div 2, w - 1)

RECURSIVE BitXor(_, _, _)
BitXor(a, b, w) ==
    IF w = 0 THEN 0
    ELSE (((a % 2) + (b % 2)) % 2) + 2 * BitXor(a \div 2, b \div 2, w - 1)

RECURSIVE BitOr(_, _, _)
BitOr(a, b, w) ==
    IF w = 0 THEN 0
    ELSE (IF (a % 2) + (b % 2) > 0 THEN 1 ELSE 0) + 2 * BitOr(a \div 2, b \div 2, w - 1)

\* ~x on a uint8_t operand, truncated to 8 bits
Not8(a) == 255 - a

\* (curr & mask) as a C truth value
Held(mask, btn) == BitAnd(mask, btn, 8) # 0

\* whether bit number b (0..7) of a mask is set, by division
BitSet(mask, b) == (mask \div (2 ^ b)) % 2 = 1

\* the masks made of the buttons in btns
RECURSIVE SumSet(_)
SumSet(S) == IF S = {} THEN 0 ELSE LET x == CHOOSE y \in S : TRUE IN x + SumSet(S \ {x})

Masks(btns) == { SumSet(S) : S \in SUBSET btns }

\* int8_t value of an integer (two's complement truncation)
ToInt8(v) == LET m == v % 256 IN IF m >= 128 THEN m - 256 ELSE m


(***************************************************************************)
(* CLICKER: counter with a battery-backed high score                       *)
(* (games/clicker/src/game.c, main.c).                                     *)
(***************************************************************************)
VARIABLES
    ck_pc,          \* position of the main context
    ck_ret,         \* where save_write / save_clear returns to
    sram,           \* SRAM bytes 0..2: magic, high score low, high score high
    ck_count,       \* game.count
    ck_highscore,   \* game.highscore
    ck_save_valid,  \* game.save_valid
    ck_prev_input,  \* prev_input
    ck_curr_input,  \* curr_input
    ck_last_count,  \* game_render's static last_count (uint8_t)
    ck_last_high,   \* game_render's static last_high
    ck_bkg,         \* the eight digit cells of the background: count row, high row
    ck_sw_log,      \* SRAM offsets written so far by the running save_write
    ck_sw_from,     \* whether SRAM held a valid save when that save_write began
    ck_cut,         \* what the last power loss interrupted
    ck_saved        \* the save routine that last ran to its end with no SRAM store
                    \* since: << >> (none), <<"write", highscore>> or <<"clear", 0>>

ClickerVars ==
    << ck_pc, ck_ret, sram, ck_count, ck_highscore, ck_save_valid, ck_prev_input,
       ck_curr_input, ck_last_count, ck_last_high, ck_bkg, ck_sw_log, ck_sw_from,
       ck_cut, ck_saved >>

(***************************************************************************)
(* SHOOTER (games/samples/shooter/src/game.c, main.c).                     *)
(***************************************************************************)
VARIABLES
    sh_pc,          \* position of main's loop
    sh_frames,      \* iterations of the loop begun
    sh_player_x,    \* game.player_x (game.player_y never changes)
    sh_lives,       \* game.lives
    sh_bullets,     \* game.bullets: index 0..3 -> [x, y, active]
    sh_enemies,     \* game.enemies: index 0..3 -> [x, y, active]
    sh_spawn_timer, \* game.spawn_timer
    sh_scroll_y,    \* game.scroll_y
    sh_score,       \* game.score
    sh_game_over,   \* game.game_over
    sh_rand_seed,   \* rand_seed
    sh_prev_input,  \* prev_input
    sh_curr_input,  \* curr_input
    sh_SCY_REG,     \* background vertical scroll register
    sh_win,         \* window row 0: the four score cells and the lives cell
    sh_oam          \* sprite table: sprite 0..11 -> <<x, y>>

ShooterVars ==
    << sh_pc, sh_frames, sh_player_x, sh_lives, sh_bullets, sh_enemies,
       sh_spawn_timer, sh_scroll_y, sh_score, sh_game_over, sh_rand_seed,
       sh_prev_input, sh_curr_input, sh_SCY_REG, sh_win, sh_oam >>

(***************************************************************************)
(* FISHING (games/samples/fishing/src/game.c, main.c).                     *)
(***************************************************************************)
VARIABLES
    fs_pc,          \* position of main's loop
    fs_frames,      \* iterations of the loop begun
    fs_game,        \* the GameState structure `game'
    fs_bkg,         \* background tile map: <<x, y>> -> tile
    fs_joy,         \* game_update's local joy of the latest frame
    fs_joy_pressed, \* game_update's local joy_pressed of the latest frame
    fs_joy_before,  \* the mask the controller returned one frame earlier
    fs_reads,       \* controller reads made in the current frame
    fs_run          \* A-edge reports of the latest reads that follow 00,10,10,00

FishingVars ==
    << fs_pc, fs_frames, fs_game, fs_bkg, fs_joy, fs_joy_pressed, fs_joy_before,
       fs_reads, fs_run >>

(***************************************************************************)
(* PUZZLE: falling blocks (games/samples/puzzle/src/game.c, main.c).       *)
(***************************************************************************)
VARIABLES
    pz_pc,          \* position of main's loop
    pz_frames,      \* iterations of the loop begun
    pz_game,        \* the GameState structure `game'
    pz_prev_input,  \* prev_input
    pz_curr_input,  \* curr_input
    pz_rand_seed,   \* rand_seed
    pz_bkg,         \* background tiles of columns 4..15: <<x, y>> -> tile
    pz_joy,         \* the mask the controller returned in the latest frame
    pz_curr_before, \* curr_input as it stood when the current frame began
    pz_reads,       \* controller reads made in the current frame
    pz_lock         \* what the latest game_update locked: grid, piece, score before

PuzzleVars ==
    << pz_pc, pz_frames, pz_game, pz_prev_input, pz_curr_input, pz_rand_seed,
       pz_bkg, pz_joy, pz_curr_before, pz_reads, pz_lock >>

(***************************************************************************)
(* The puzzle's placement check called on its own (game.c, can_place).     *)
(***************************************************************************)
VARIABLES
    cp_pc,          \* "call" before the call, "done" after it
    cp_grid,        \* game.grid at the call
    cp_args,        \* the arguments px, py, type, rotation
    cp_ret          \* the value returned

PlacementVars == << cp_pc, cp_grid, cp_args, cp_ret >>

(***************************************************************************)
(* Two runs of the puzzle fed the same controller masks (main.c, the loop  *)
(* body; game.c).                                                          *)
(***************************************************************************)
VARIABLES
    rp_pc,          \* "run" while the two runs play, "off" otherwise
    rp_frames,      \* loop bodies both runs have completed
    rp_a,           \* the first run: game, rand_seed, prev_input, curr_input
    rp_b            \* the second run

ReplayVars == << rp_pc, rp_frames, rp_a, rp_b >>

(***************************************************************************)
(* The generator of the fishing and maze games called on its own           *)
(* (games/samples/fishing/src/game.c and games/samples/maze/src/game.c,    *)
(* random).                                                                *)
(***************************************************************************)
VARIABLES
    rn_pc,          \* "call" while calls are made, "off" otherwise
    rn_calls,       \* calls of random() made
    rn_state,       \* game.seed (fishing), rand_state (maze)
    rn_before,      \* the state when the latest call began
    rn_ret          \* the value the latest call returned

RandomVars == << rn_pc, rn_calls, rn_state, rn_before, rn_ret >>

(***************************************************************************)
(* The generators of the games, two of each seeded alike and called side   *)
(* by side (rand8 of the puzzle, rand16 of the timer, random of fishing,   *)
(* random_byte of snake), and the statements of the frame handlers that    *)
(* write the generator's state outside a call.                             *)
(***************************************************************************)
VARIABLES
    gn_pc,          \* "call": the generators are called; "frame": the
                    \* handlers run; "off" otherwise
    gn_game,        \* the game both generators belong to
    gn_steps,       \* calls, or handler runs, made so far
    gn_a,           \* the first generator: its state, the values returned
    gn_b            \* the second generator

GeneratorsVars == << gn_pc, gn_game, gn_steps, gn_a, gn_b >>

(***************************************************************************)
(* The parallax demo (games/samples/parallax/src/game.c): the main loop,   *)
(* the display's raster and the scanline interrupt handler lcd_isr.        *)
(***************************************************************************)
VARIABLES
    px_pc,          \* where the main loop stands: "wait", "render", "input",
                    \* "update", "store_mountain", "store_hills",
                    \* "store_ground"; "off" when the demo is not running
    px_frames,      \* frames displayed in full
    px_LY,          \* the scanline the display is at; SCREEN_END in vblank
    px_irq,         \* the scanline interrupt is pending
    px_regs,        \* SCX_REG, LYC_REG and the handler's current_layer
    px_layer,       \* layer_scroll_mountain, _hills, _ground; each with the
                    \* master scroll_x it was computed from
    px_game,        \* the GameState record
    px_input,       \* prev_input, curr_input
    px_vram,        \* the background map, the sprite table, the tile data
    px_shown,       \* SCX_REG as each line of the current frame was displayed
    px_fired        \* the handler's runs in the current frame: the line, the
                    \* value applied and the scroll_x it came from

ParallaxVars ==
    << px_pc, px_frames, px_LY, px_irq, px_regs, px_layer, px_game, px_input,
       px_vram, px_shown, px_fired >>

(***************************************************************************)
(* The platformer (games/samples/platformer/src/game.c).                   *)
(***************************************************************************)
VARIABLES
    pf_pc,          \* the call the main loop makes next: "render", "input",
                    \* "update"; "off" when the game is not running
    pf_frames,      \* loop bodies completed
    pf_game,        \* the GameState record
    pf_input,       \* prev_input, curr_input
    pf_sprite,      \* where move_sprite last put the player's sprite
    pf_bkg,         \* the background map draw_level() fills
    pf_start,       \* the GameState when the frame's game_handle_input began
    pf_landed       \* game_update's local `landed' in its latest run

PlatformerVars ==
    << pf_pc, pf_frames, pf_game, pf_input, pf_sprite, pf_bkg, pf_start,
       pf_landed >>

(***************************************************************************)
(* The shooter's rectangle test called on its own (game.c,                 *)
(* check_collision).                                                       *)
(***************************************************************************)
VARIABLES
    cc_pc,          \* "call" before the call, "done" after it, "off"
    cc_args,        \* the arguments x1, y1, w1, h1, x2, y2, w2, h2
    cc_ret          \* the value returned

CollisionVars == << cc_pc, cc_args, cc_ret >>

(***************************************************************************)
(* The timer game (games/samples/timer/src/game.c, main.c): the main loop  *)
(* and the timer interrupt handler timer_isr, which share timer_ticks.     *)
(***************************************************************************)
VARIABLES
    tm_pc,          \* where the main context stands: "wait", "input",
                    \* "hi_reset", "hi_read", "stir", "stir2", "update",
                    \* "up_read", "up_gap", "up_reset", "render"; "off"
                    \* when the game is not running
    tm_ime,         \* interrupts are enabled
    tm_ticks,       \* timer_ticks, 16 bits
    tm_game,        \* the game structure, with the screen last drawn
    tm_rand_seed,   \* rand_seed
    tm_input,       \* prev_input and curr_input
    tm_count,       \* loop bodies begun, and handler runs in this one
    tm_latch,       \* the byte of timer_ticks a two-byte read has fetched
    tm_access       \* the latest main-context access of timer_ticks: where,
                    \* the value obtained or stored, the values the counter
                    \* held while the access lasted

TimerVars ==
    << tm_pc, tm_ime, tm_ticks, tm_game, tm_rand_seed, tm_input, tm_count,
       tm_latch, tm_access >>

(***************************************************************************)
(* Snake (games/snake/src/game.c): the input and update handlers, called   *)
(* one after another in any order.                                         *)
(***************************************************************************)
VARIABLES
    sn_pc,          \* "run" while handlers are called, "off" otherwise
    sn_steps,       \* handler calls made
    sn_game,        \* the game structure
    sn_rng,         \* rng_state and frame_count
    sn_input,       \* prev_input and curr_input
    sn_moved        \* the latest move_snake(): the direction before it and
                    \* the direction it applied

SnakeVars == << sn_pc, sn_steps, sn_game, sn_rng, sn_input, sn_moved >>

(***************************************************************************)
(* Simon (games/samples/simon/src): main()'s loop, game_handle_input()     *)
(* then game_update() once a frame, and the button picture on the screen.  *)
(***************************************************************************)
VARIABLES
    si_pc,          \* "input", "update" in the loop, "off" otherwise
    si_game,        \* the game structure
    si_bkg,         \* the background: which buttons are drawn lit, the
                    \* message row, the score digits
    si_frame,       \* the frame under way: the state it began in and
                    \* whether the player newly pressed a D-pad key in it
    si_quiet        \* frames in a row, up to the latest finished one, that
                    \* began in PLAYER_INPUT and had no new D-pad press

SimonVars == << si_pc, si_game, si_bkg, si_frame, si_quiet >>

\* what each game leaves alone: the variables of the other games
ClickerOthers ==
    << ShooterVars, FishingVars, PuzzleVars, PlacementVars, ReplayVars, RandomVars,
       GeneratorsVars, ParallaxVars, PlatformerVars, CollisionVars, TimerVars,
       SnakeVars, SimonVars >>

ShooterOthers ==
    << ClickerVars, FishingVars, PuzzleVars, PlacementVars, ReplayVars, RandomVars,
       GeneratorsVars, ParallaxVars, PlatformerVars, CollisionVars, TimerVars,
       SnakeVars, SimonVars >>

FishingOthers ==
    << ClickerVars, ShooterVars, PuzzleVars, PlacementVars, ReplayVars, RandomVars,
       GeneratorsVars, ParallaxVars, PlatformerVars, CollisionVars, TimerVars,
       SnakeVars, SimonVars >>

PuzzleOthers ==
    << ClickerVars, ShooterVars, FishingVars, PlacementVars, ReplayVars, RandomVars,
       GeneratorsVars, ParallaxVars, PlatformerVars, CollisionVars, TimerVars,
       SnakeVars, SimonVars >>

PlacementOthers ==
    << ClickerVars, ShooterVars, FishingVars, PuzzleVars, ReplayVars, RandomVars,
       GeneratorsVars, ParallaxVars, PlatformerVars, CollisionVars, TimerVars,
       SnakeVars, SimonVars >>

ReplayOthers ==
    << ClickerVars, ShooterVars, FishingVars, PuzzleVars, PlacementVars, RandomVars,
       GeneratorsVars, ParallaxVars, PlatformerVars, CollisionVars, TimerVars,
       SnakeVars, SimonVars >>

RandomOthers ==
    << ClickerVars, ShooterVars, FishingVars, PuzzleVars, PlacementVars, ReplayVars,
       GeneratorsVars, ParallaxVars, PlatformerVars, CollisionVars, TimerVars,
       SnakeVars, SimonVars >>

GeneratorsOthers ==
    << ClickerVars, ShooterVars, FishingVars, PuzzleVars, PlacementVars, ReplayVars,
       RandomVars, ParallaxVars, PlatformerVars, CollisionVars, TimerVars,
       SnakeVars, SimonVars >>

ParallaxOthers ==
    << ClickerVars, ShooterVars, FishingVars, PuzzleVars, PlacementVars, ReplayVars,
       RandomVars, GeneratorsVars, PlatformerVars, CollisionVars, TimerVars,
       SnakeVars, SimonVars >>

PlatformerOthers ==
    << ClickerVars, ShooterVars, FishingVars, PuzzleVars, PlacementVars, ReplayVars,
       RandomVars, GeneratorsVars, ParallaxVars, CollisionVars, TimerVars,
       SnakeVars, SimonVars >>

CollisionOthers ==
    << ClickerVars, ShooterVars, FishingVars, PuzzleVars, PlacementVars, ReplayVars,
       RandomVars, GeneratorsVars, ParallaxVars, PlatformerVars, TimerVars,
       SnakeVars, SimonVars >>

TimerOthers ==
    << ClickerVars, ShooterVars, FishingVars, PuzzleVars, PlacementVars, ReplayVars,
       RandomVars, GeneratorsVars, ParallaxVars, PlatformerVars, CollisionVars,
       SnakeVars, SimonVars >>

SnakeOthers ==
    << ClickerVars, ShooterVars, FishingVars, PuzzleVars, PlacementVars, ReplayVars,
       RandomVars, GeneratorsVars, ParallaxVars, PlatformerVars, CollisionVars,
       TimerVars, SimonVars >>

SimonOthers ==
    << ClickerVars, ShooterVars, FishingVars, PuzzleVars, PlacementVars, ReplayVars,
       RandomVars, GeneratorsVars, ParallaxVars, PlatformerVars, CollisionVars,
       TimerVars, SnakeVars >>

SAVE_MAGIC == 66
COUNT_LIMIT == 9999
TILE_BLANK == 20

\* the most A presses one run counts (the counter itself stops at COUNT_LIMIT)
MaxCount == 2

\* byte values a SRAM cell holds at power-on
SramBytes == {0, 1, SAVE_MAGIC, 255}

\* masks the player can produce on the buttons the clicker reads
ClickerInputs == Masks({J_A, J_B, J_START, J_SELECT})

\* the four decimal digits of num, most significant first (game_render's loops)
Digits4(num) ==
    << (num \div 1000) % 10, (num \div 100) % 10, (num \div 10) % 10, num % 10 >>

\* C start-up and statics: RAM as it is when main begins
ClickerRamInit ==
    /\ ck_count = 0
    /\ ck_highscore = 0
    /\ ck_save_valid = 0
    /\ ck_prev_input = 0
    /\ ck_curr_input = 0
    /\ ck_last_count = 255
    /\ ck_last_high = 65535
    /\ ck_bkg = [count |-> <<TILE_BLANK, TILE_BLANK, TILE_BLANK, TILE_BLANK>>,
                 high |-> <<TILE_BLANK, TILE_BLANK, TILE_BLANK, TILE_BLANK>>]

ClickerInit ==
    /\ ck_pc = "boot"
    /\ ck_ret = "none"
    /\ sram \in [0..2 -> SramBytes]
    /\ ClickerRamInit
    /\ ck_sw_log = << >>
    /\ ck_sw_from = FALSE
    /\ ck_cut = "none"
    /\ ck_saved = << >>

ClickerParked ==
    /\ ck_pc = "off"
    /\ ck_ret = "none"
    /\ sram = [i \in 0..2 |-> 0]
    /\ ClickerRamInit
    /\ ck_sw_log = << >>
    /\ ck_sw_from = FALSE
    /\ ck_cut = "none"
    /\ ck_saved = << >>

\* a save_load that takes the payload whatever byte 0 holds
SaveLoadUnchecked(mem) == BitOr(mem[1], mem[2] * 256, 16)

\* save_load: the values of (highscore, save_valid) it leaves
SaveLoadHighscore(mem) ==
    IF mem[0] = SAVE_MAGIC THEN BitOr(mem[1], mem[2] * 256, 16) ELSE 0

SaveLoadValid(mem) == IF mem[0] = SAVE_MAGIC THEN 1 ELSE 0

\* main up to the loop: sprites_init, game_init (count = 0, save_load)
ClickerBoot ==
    /\ UNCHANGED ClickerOthers
    /\ ck_pc = "boot"
    /\ ck_count' = 0
    /\ ck_highscore' = SaveLoadHighscore(sram)
    /\ ck_save_valid' = SaveLoadValid(sram)
    /\ ck_pc' = "main"
    /\ UNCHANGED << ck_ret, sram, ck_prev_input, ck_curr_input, ck_last_count,
                    ck_last_high, ck_bkg, ck_sw_log, ck_sw_from, ck_cut, ck_saved >>

\* SHOW_BKG, DISPLAY_ON and every wait_vbl_done of the loop
ClickerWaitVbl ==
    /\ UNCHANGED ClickerOthers
    /\ ck_pc \in {"main", "vbl"}
    /\ ck_pc' = "input"
    /\ UNCHANGED << ck_ret, sram, ck_count, ck_highscore, ck_save_valid,
                    ck_prev_input, ck_curr_input, ck_last_count, ck_last_high,
                    ck_bkg, ck_sw_log, ck_sw_from, ck_cut, ck_saved >>

\* entry of save_write: ENABLE_RAM, nothing written yet
EnterSaveWrite(ret) ==
    /\ ck_pc' = "sw0"
    /\ ck_ret' = ret
    /\ ck_sw_log' = << >>
    /\ ck_sw_from' = (sram[0] = SAVE_MAGIC)

\* game_handle_input up to the START test: the read, A and B
ClickerHandleInput ==
    /\ UNCHANGED ClickerOthers
    /\ ck_pc = "input"
    /\ \E joy \in ClickerInputs :
        LET pressedA == Held(joy, J_A) /\ ~Held(ck_curr_input, J_A)
            pressedB == Held(joy, J_B) /\ ~Held(ck_curr_input, J_B)
            pressedStart == Held(joy, J_START) /\ ~Held(ck_curr_input, J_START)
            afterA == IF pressedA /\ ck_count < COUNT_LIMIT
                      THEN ck_count + 1 ELSE ck_count
        IN  /\ (pressedA => ck_count < MaxCount)
            /\ ck_prev_input' = ck_curr_input
            /\ ck_curr_input' = joy
            /\ ck_count' = IF pressedB THEN 0 ELSE afterA
            /\ IF pressedStart
               THEN EnterSaveWrite("select")
               ELSE /\ ck_pc' = "select"
                    /\ UNCHANGED << ck_ret, ck_sw_log, ck_sw_from >>
    /\ UNCHANGED << sram, ck_highscore, ck_save_valid, ck_last_count,
                    ck_last_high, ck_bkg, ck_cut, ck_saved >>

\* a save_write that forgets the shift and stores the low byte twice
SaveWriteLowTwice(high) ==
    << <<0, SAVE_MAGIC>>,
       <<1, BitAnd(high, 255, 16)>>,
       <<2, BitAnd(high, 255, 16)>> >>

\* the order in which save_write stores its three bytes: (offset, value)
SaveWriteOrder(high) ==
    << <<0, SAVE_MAGIC>>,
       <<1, BitAnd(high, 255, 16)>>,
       <<2, BitAnd(high \div 256, 255, 16)>> >>

\* one SRAM store of save_write; after the third, DISABLE_RAM and return
ClickerSaveWriteStep ==
    /\ UNCHANGED ClickerOthers
    /\ ck_pc \in {"sw0", "sw1", "sw2"}
    /\ LET k == Len(ck_sw_log) + 1
           w == SaveWriteOrder(ck_highscore)[k]
       IN  /\ sram' = [sram EXCEPT ![w[1]] = w[2]]
           /\ ck_sw_log' = Append(ck_sw_log, w[1])
           /\ ck_pc' = IF k = 3 THEN ck_ret ELSE <<"sw0", "sw1", "sw2">>[k + 1]
           /\ ck_ret' = IF k = 3 THEN "none" ELSE ck_ret
           /\ ck_saved' = IF k = 3 THEN << "write", ck_highscore >> ELSE << >>
    /\ UNCHANGED << ck_count, ck_highscore, ck_save_valid, ck_prev_input,
                    ck_curr_input, ck_last_count, ck_last_high, ck_bkg,
                    ck_sw_from, ck_cut >>

\* game_handle_input from the SELECT test on
ClickerHandleSelect ==
    /\ UNCHANGED ClickerOthers
    /\ ck_pc = "select"
    /\ IF Held(ck_curr_input, J_SELECT) /\ ~Held(ck_prev_input, J_SELECT)
       THEN ck_pc' = "sc0" /\ ck_ret' = "update"
       ELSE ck_pc' = "update" /\ UNCHANGED ck_ret
    /\ UNCHANGED << sram, ck_count, ck_highscore, ck_save_valid, ck_prev_input,
                    ck_curr_input, ck_last_count, ck_last_high, ck_bkg,
                    ck_sw_log, ck_sw_from, ck_cut, ck_saved >>

\* a save_clear that zeroes the magic byte and leaves the payload
SaveClearMagicOnly(mem, k) == IF k = 0 THEN [mem EXCEPT ![0] = 0] ELSE mem

\* the k-th store of save_clear: *SRAM_MAGIC = 0x00; *SRAM_HIGHSCORE_L = 0x00;
\* *SRAM_HIGHSCORE_H = 0x00;
SaveClearStore(mem, k) == [mem EXCEPT ![k] = 0]

\* one SRAM store of save_clear; after the third, the game fields are zeroed
ClickerSaveClearStep ==
    /\ UNCHANGED ClickerOthers
    /\ ck_pc \in {"sc0", "sc1", "sc2"}
    /\ LET k == CHOOSE i \in 0..2 : ck_pc = <<"sc0", "sc1", "sc2">>[i + 1]
       IN  /\ sram' = SaveClearStore(sram, k)
           /\ ck_saved' = IF k = 2 THEN << "clear", 0 >> ELSE << >>
           /\ IF k = 2
              THEN /\ ck_highscore' = 0
                   /\ ck_save_valid' = 0
                   /\ ck_pc' = ck_ret
                   /\ ck_ret' = "none"
              ELSE /\ ck_pc' = <<"sc0", "sc1", "sc2">>[k + 2]
                   /\ UNCHANGED << ck_highscore, ck_save_valid, ck_ret >>
    /\ UNCHANGED << ck_count, ck_prev_input, ck_curr_input, ck_last_count,
                    ck_last_high, ck_bkg, ck_sw_log, ck_sw_from, ck_cut >>

\* game_update: a beaten high score is stored at once
ClickerUpdate ==
    /\ UNCHANGED ClickerOthers
    /\ ck_pc = "update"
    /\ IF ck_count > ck_highscore
       THEN /\ ck_highscore' = ck_count
            /\ EnterSaveWrite("render")
       ELSE /\ ck_pc' = "render"
            /\ UNCHANGED << ck_highscore, ck_ret, ck_sw_log, ck_sw_from >>
    /\ UNCHANGED << sram, ck_count, ck_save_valid, ck_prev_input, ck_curr_input,
                    ck_last_count, ck_last_high, ck_bkg, ck_cut, ck_saved >>

\* game_render: redraw both numbers when the change detection fires
ClickerRender ==
    /\ UNCHANGED ClickerOthers
    /\ ck_pc = "render"
    /\ IF ck_count # ck_last_count \/ ck_highscore # ck_last_high
       THEN /\ ck_last_count' = ck_count % 256
            /\ ck_last_high' = ck_highscore
            /\ ck_bkg' = [count |-> Digits4(ck_count), high |-> Digits4(ck_highscore)]
       ELSE UNCHANGED << ck_last_count, ck_last_high, ck_bkg >>
    /\ ck_pc' = "vbl"
    /\ UNCHANGED << ck_ret, sram, ck_count, ck_highscore, ck_save_valid,
                    ck_prev_input, ck_curr_input, ck_sw_log, ck_sw_from, ck_cut, ck_saved >>

\* what a power loss at position pc interrupts
CutKind(pc, log, fromValid) ==
    IF pc \in {"sw1", "sw2"}
    THEN (IF fromValid THEN "write_over_save" ELSE "write_over_nosave")
    ELSE IF pc \in {"sc1", "sc2"} THEN "clear" ELSE "between"

\* power loss or reset: RAM restarts from the C start-up values, SRAM is kept
ClickerPowerLoss ==
    /\ UNCHANGED ClickerOthers
    /\ ck_pc \notin {"off", "boot"}
    /\ ck_cut' = CutKind(ck_pc, ck_sw_log, ck_sw_from)
    /\ ck_pc' = "boot"
    /\ ck_ret' = "none"
    /\ ck_count' = 0
    /\ ck_highscore' = 0
    /\ ck_save_valid' = 0
    /\ ck_prev_input' = 0
    /\ ck_curr_input' = 0
    /\ ck_last_count' = 255
    /\ ck_last_high' = 65535
    /\ ck_bkg' = [count |-> <<TILE_BLANK, TILE_BLANK, TILE_BLANK, TILE_BLANK>>,
                  high |-> <<TILE_BLANK, TILE_BLANK, TILE_BLANK, TILE_BLANK>>]
    /\ UNCHANGED << sram, ck_sw_log, ck_sw_from, ck_saved >>

ClickerNext ==
    \/ ClickerBoot
    \/ ClickerWaitVbl
    \/ ClickerHandleInput
    \/ ClickerSaveWriteStep
    \/ ClickerHandleSelect
    \/ ClickerSaveClearStep
    \/ ClickerUpdate
    \/ ClickerRender
    \/ ClickerPowerLoss

\* counts reached by pressing A: none, one, the last that fits a byte, the
\* first that does not, the limit
DisplayCounts == {0, 1, 255, 256, COUNT_LIMIT}

\* the clicker after the render of a frame in which the n-th press of A in
\* a row, from power-on over an empty SRAM, was counted: count and high
\* score are n, both are on screen and, for n > 0, saved
ClickerShownInit ==
    \E n \in DisplayCounts :
        /\ ck_pc = "vbl"
        /\ ck_ret = "none"
        /\ ck_count = n
        /\ ck_highscore = n
        /\ ck_save_valid = 0
        /\ ck_prev_input = 0
        /\ ck_curr_input = IF n = 0 THEN 0 ELSE J_A
        /\ ck_last_count = n % 256
        /\ ck_last_high = n
        /\ ck_bkg = [count |-> Digits4(n), high |-> Digits4(n)]
        /\ sram = IF n = 0 THEN [i \in 0..2 |-> 0]
                  ELSE [i \in 0..2 |-> IF i = 0 THEN SAVE_MAGIC
                                       ELSE IF i = 1 THEN n % 256 ELSE n \div 256]
        /\ ck_sw_log = IF n = 0 THEN << >> ELSE << 0, 1, 2 >>
        /\ ck_sw_from = (n > 1)
        /\ ck_cut = "none"
        /\ ck_saved = IF n = 0 THEN << >> ELSE << "write", n >>

\* high scores handed to save_write: both bytes zero, one zero, equal,
\* different, the magic value in either byte, the extremes
SaveScores == {0, 1, SAVE_MAGIC, 255, 256, 9999, 17151, 65346, 65535}

\* the save routines called on their own: a game with any high score about
\* to call save_write or save_clear over any SRAM image, or a power-on over
\* an image with any byte 0
SaveInit ==
    /\ ck_ret = "none"
    /\ ck_count = 0
    /\ ck_prev_input = 0
    /\ ck_curr_input = 0
    /\ ck_last_count = 255
    /\ ck_last_high = 65535
    /\ ck_bkg = [count |-> <<TILE_BLANK, TILE_BLANK, TILE_BLANK, TILE_BLANK>>,
                 high |-> <<TILE_BLANK, TILE_BLANK, TILE_BLANK, TILE_BLANK>>]
    /\ ck_sw_log = << >>
    /\ ck_sw_from = FALSE
    /\ ck_cut = "none"
    /\ ck_saved = << >>
    /\ \/ /\ ck_pc = "save"
          /\ sram \in [0..2 -> SramBytes]
          /\ ck_highscore \in SaveScores
          /\ ck_save_valid \in {0, 1}
       \/ /\ ck_pc = "boot"
          /\ \E m \in 0..255, lo \in SramBytes, hi \in SramBytes :
                 sram = [i \in 0..2 |-> IF i = 0 THEN m ELSE IF i = 1 THEN lo ELSE hi]
          /\ ck_highscore = 0
          /\ ck_save_valid = 0

\* a call of save_write or of save_clear
SaveCall ==
    /\ UNCHANGED ClickerOthers
    /\ ck_pc = "save"
    /\ \/ EnterSaveWrite("saved")
       \/ /\ ck_pc' = "sc0"
          /\ ck_ret' = "saved"
          /\ UNCHANGED << ck_sw_log, ck_sw_from >>
    /\ UNCHANGED << sram, ck_count, ck_highscore, ck_save_valid, ck_prev_input,
                    ck_curr_input, ck_last_count, ck_last_high, ck_bkg, ck_cut,
                    ck_saved >>

\* a call of save_load right after the routine returned
SaveCallLoad ==
    /\ UNCHANGED ClickerOthers
    /\ ck_pc = "saved"
    /\ ck_highscore' = SaveLoadHighscore(sram)
    /\ ck_save_valid' = SaveLoadValid(sram)
    /\ ck_pc' = "loaded"
    /\ UNCHANGED << ck_ret, sram, ck_count, ck_prev_input, ck_curr_input,
                    ck_last_count, ck_last_high, ck_bkg, ck_sw_log, ck_sw_from,
                    ck_cut, ck_saved >>

SaveNext ==
    \/ SaveCall
    \/ ClickerSaveWriteStep
    \/ ClickerSaveClearStep
    \/ SaveCallLoad
    \/ ClickerPowerLoss
    \/ ClickerBoot


(***************************************************************************)
(* SHOOTER                                                                 *)
(***************************************************************************)
SH_SCREEN_WIDTH == 160
SH_SCREEN_HEIGHT == 144
SPRITE_X_OFFSET == 8
SPRITE_Y_OFFSET == 16
PLAYER_WIDTH == 16
PLAYER_HEIGHT == 16
PLAYER_START_X == 72
PLAYER_START_Y == 120
PLAYER_SPEED == 2
PLAYER_MIN_X == 8
PLAYER_MAX_X == SH_SCREEN_WIDTH - PLAYER_WIDTH
MAX_BULLETS == 4
BULLET_SPEED == 4
BULLET_WIDTH == 4
BULLET_HEIGHT == 8
MAX_ENEMIES == 4
ENEMY_WIDTH == 8
ENEMY_HEIGHT == 8
ENEMY_SPEED == 1
ENEMY_SPAWN_RATE == 60
HUD_HEIGHT == 16
SCROLL_SPEED == 1
SH_TILE_DIGIT_0 == 2
SPRITE_PLAYER == 0
SPRITE_BULLET_BASE == 4
SPRITE_ENEMY_BASE == 8
SH_RAND_SEED_INIT == 42
SH_LIVES_INIT == 3

\* loop iterations one run of the shooter model follows
MaxShooterFrames == 3

ShooterInputs == Masks({J_LEFT, J_RIGHT, J_A, J_START})

\* rand8: the xorshift step on the 8-bit seed; the new seed is the result
Rand8Next(seed) ==
    LET s1 == BitXor(seed, (seed * 8) % 256, 8)
        s2 == BitXor(s1, s1 \div 32, 8)
    IN  BitXor(s2, (s2 * 16) % 256, 8)

\* update_score_display: the four digit tiles, cell 6 first
ShScoreTiles(score) ==
    << SH_TILE_DIGIT_0 + ((score \div 1000) % 10),
       SH_TILE_DIGIT_0 + ((score \div 100) % 10),
       SH_TILE_DIGIT_0 + ((score \div 10) % 10),
       SH_TILE_DIGIT_0 + (score % 10) >>

\* update_lives_display
ShLivesTile(lives) == (SH_TILE_DIGIT_0 + lives) % 256

\* a rectangle test whose sums stay in 8 bits
CheckCollisionWrapped(x1, y1, w1, h1, x2, y2, w2, h2) ==
    /\ x1 < (x2 + w2) % 256
    /\ (x1 + w1) % 256 > x2
    /\ y1 < (y2 + h2) % 256
    /\ (y1 + h1) % 256 > y2

\* check_collision: AABB test on values promoted to int
check_collision(x1, y1, w1, h1, x2, y2, w2, h2) ==
    (x1 < x2 + w2) /\ (x1 + w1 > x2) /\ (y1 < y2 + h2) /\ (y1 + h1 > y2)

\* the state main's loop is in after game_init and idle further frames:
\* the starfield has scrolled idle lines and the spawn timer has run down
ShooterInit ==
    /\ sh_pc = "vbl"
    /\ sh_frames = 0
    /\ sh_player_x = PLAYER_START_X
    /\ sh_lives = SH_LIVES_INIT
    /\ sh_bullets = [i \in 0..(MAX_BULLETS - 1) |-> [x |-> 0, y |-> 0, active |-> 0]]
    /\ sh_enemies = [i \in 0..(MAX_ENEMIES - 1) |-> [x |-> 0, y |-> 0, active |-> 0]]
    /\ \E idle \in {0, ENEMY_SPAWN_RATE} :
        /\ sh_spawn_timer = ENEMY_SPAWN_RATE - idle
        /\ sh_scroll_y = idle * SCROLL_SPEED
        /\ sh_SCY_REG = idle * SCROLL_SPEED
        /\ sh_oam = [i \in 0..11 |->
                       IF idle = 0 THEN <<0, 0>>
                       ELSE IF i = 0 THEN <<PLAYER_START_X + 8, PLAYER_START_Y + 16>>
                       ELSE IF i = 1 THEN <<PLAYER_START_X + 16, PLAYER_START_Y + 16>>
                       ELSE IF i = 2 THEN <<PLAYER_START_X + 8, PLAYER_START_Y + 24>>
                       ELSE IF i = 3 THEN <<PLAYER_START_X + 16, PLAYER_START_Y + 24>>
                       ELSE <<0, 0>>]
    /\ sh_score = 0
    /\ sh_game_over = 0
    /\ sh_rand_seed = SH_RAND_SEED_INIT
    /\ sh_prev_input = 0
    /\ sh_curr_input = 0
    /\ sh_win = [score |-> ShScoreTiles(0), lives |-> ShLivesTile(SH_LIVES_INIT)]

ShooterParked ==
    /\ sh_pc = "off"
    /\ sh_frames = 0
    /\ sh_player_x = PLAYER_START_X
    /\ sh_lives = SH_LIVES_INIT
    /\ sh_bullets = [i \in 0..(MAX_BULLETS - 1) |-> [x |-> 0, y |-> 0, active |-> 0]]
    /\ sh_enemies = [i \in 0..(MAX_ENEMIES - 1) |-> [x |-> 0, y |-> 0, active |-> 0]]
    /\ sh_spawn_timer = ENEMY_SPAWN_RATE
    /\ sh_scroll_y = 0
    /\ sh_SCY_REG = 0
    /\ sh_oam = [i \in 0..11 |-> <<0, 0>>]
    /\ sh_score = 0
    /\ sh_game_over = 0
    /\ sh_rand_seed = SH_RAND_SEED_INIT
    /\ sh_prev_input = 0
    /\ sh_curr_input = 0
    /\ sh_win = [score |-> ShScoreTiles(0), lives |-> ShLivesTile(SH_LIVES_INIT)]

\* wait_vbl_done at the top of main's loop; game_handle_input comes next
ShooterWaitVbl ==
    /\ UNCHANGED ShooterOthers
    /\ sh_pc = "vbl"
    /\ sh_frames < MaxShooterFrames
    /\ sh_frames' = sh_frames + 1
    /\ sh_pc' = "input"
    /\ UNCHANGED << sh_player_x, sh_lives, sh_bullets, sh_enemies, sh_spawn_timer,
                    sh_scroll_y, sh_score, sh_game_over, sh_rand_seed, sh_prev_input,
                    sh_curr_input, sh_SCY_REG, sh_win, sh_oam >>

\* the first inactive slot of a table, or -1
FirstInactive(tab, n) ==
    IF \E i \in 0..(n - 1) : tab[i].active = 0
    THEN CHOOSE i \in 0..(n - 1) :
            tab[i].active = 0 /\ \A j \in 0..(i - 1) : tab[j].active # 0
    ELSE -1

\* game_handle_input
ShooterHandleInput ==
    /\ UNCHANGED ShooterOthers
    /\ sh_pc = "input"
    /\ sh_pc' = "update"
    /\ \E joy \in ShooterInputs :
        LET prev == sh_curr_input
            restart == Held(joy, J_START) /\ ~Held(prev, J_START) /\ sh_game_over # 0
            x1 == IF Held(joy, J_LEFT) /\ sh_player_x > PLAYER_MIN_X
                  THEN sh_player_x - PLAYER_SPEED ELSE sh_player_x
            x2 == IF Held(joy, J_RIGHT) /\ x1 < PLAYER_MAX_X
                  THEN x1 + PLAYER_SPEED ELSE x1
            slot == FirstInactive(sh_bullets, MAX_BULLETS)
            fire == Held(joy, J_A) /\ ~Held(prev, J_A) /\ slot # -1
        IN  /\ sh_prev_input' = prev
            /\ sh_curr_input' = joy
            /\ IF restart
               THEN \* game_init, then return
                    /\ sh_player_x' = PLAYER_START_X
                    /\ sh_lives' = SH_LIVES_INIT
                    /\ sh_bullets' = [i \in 0..(MAX_BULLETS - 1) |->
                                        [sh_bullets[i] EXCEPT !.active = 0]]
                    /\ sh_enemies' = [i \in 0..(MAX_ENEMIES - 1) |->
                                        [sh_enemies[i] EXCEPT !.active = 0]]
                    /\ sh_spawn_timer' = ENEMY_SPAWN_RATE
                    /\ sh_scroll_y' = 0
                    /\ sh_score' = 0
                    /\ sh_game_over' = 0
                    /\ sh_win' = [score |-> ShScoreTiles(0),
                                  lives |-> ShLivesTile(SH_LIVES_INIT)]
                    /\ sh_SCY_REG' = 0
               ELSE IF sh_game_over # 0
               THEN UNCHANGED << sh_player_x, sh_lives, sh_bullets, sh_enemies,
                                 sh_spawn_timer, sh_scroll_y, sh_score, sh_game_over,
                                 sh_win, sh_SCY_REG >>
               ELSE /\ sh_player_x' = x2
                    /\ sh_bullets' =
                         IF fire
                         THEN [sh_bullets EXCEPT ![slot] =
                                 [x |-> (x2 + (PLAYER_WIDTH \div 2) - 2) % 256,
                                  y |-> (PLAYER_START_Y - 4) % 256,
                                  active |-> 1]]
                         ELSE sh_bullets
                    /\ UNCHANGED << sh_lives, sh_enemies, sh_spawn_timer, sh_scroll_y,
                                    sh_score, sh_game_over, sh_win, sh_SCY_REG >>
    /\ UNCHANGED << sh_frames, sh_rand_seed, sh_oam >>

\* update_bullets
UpdateBullets(bs) ==
    [i \in 0..(MAX_BULLETS - 1) |->
        IF bs[i].active # 0
        THEN IF bs[i].y > BULLET_SPEED + HUD_HEIGHT
             THEN [bs[i] EXCEPT !.y = bs[i].y - BULLET_SPEED]
             ELSE [bs[i] EXCEPT !.active = 0]
        ELSE bs[i]]

\* the first active bullet that check_collision reports against enemy e, or -1
FirstHit(e, bs) ==
    LET hit(j) == bs[j].active # 0 /\
                  check_collision(e.x, e.y, ENEMY_WIDTH, ENEMY_HEIGHT,
                                  bs[j].x, bs[j].y, BULLET_WIDTH, BULLET_HEIGHT)
    IN  IF \E j \in 0..(MAX_BULLETS - 1) : hit(j)
        THEN CHOOSE j \in 0..(MAX_BULLETS - 1) : hit(j) /\ \A k \in 0..(j - 1) : ~hit(k)
        ELSE -1

\* update_enemies, enemy i of the loop, on the state st =
\* [enemies, bullets, score, lives, game_over, win]
RECURSIVE UpdateEnemiesFrom(_, _)
UpdateEnemiesFrom(i, st) ==
    IF i = MAX_ENEMIES THEN st
    ELSE IF st.enemies[i].active = 0 THEN UpdateEnemiesFrom(i + 1, st)
    ELSE
      LET y1 == (st.enemies[i].y + ENEMY_SPEED) % 256
          e1 == [st.enemies[i] EXCEPT !.y = y1]
          moved == [st EXCEPT !.enemies[i] = e1]
      IN  IF y1 > SH_SCREEN_HEIGHT
          THEN UpdateEnemiesFrom(i + 1, [moved EXCEPT !.enemies[i].active = 0])
          ELSE
            LET j == FirstHit(e1, st.bullets)
                shot == IF j # -1
                        THEN [moved EXCEPT !.enemies[i].active = 0,
                                           !.bullets[j].active = 0,
                                           !.score = (st.score + 10) % 65536,
                                           !.win.score = ShScoreTiles((st.score + 10) % 65536)]
                        ELSE moved
                rammed == shot.enemies[i].active # 0 /\
                          check_collision(e1.x, e1.y, ENEMY_WIDTH, ENEMY_HEIGHT,
                                          sh_player_x, PLAYER_START_Y,
                                          PLAYER_WIDTH, PLAYER_HEIGHT)
                lives1 == (shot.lives + 255) % 256
                after == IF rammed
                         THEN [shot EXCEPT !.enemies[i].active = 0,
                                           !.lives = lives1,
                                           !.win.lives = ShLivesTile(lives1),
                                           !.game_over = IF lives1 = 0 THEN 1
                                                         ELSE shot.game_over]
                         ELSE shot
            IN  UpdateEnemiesFrom(i + 1, after)

\* game_update
ShooterUpdate ==
    /\ UNCHANGED ShooterOthers
    /\ sh_pc = "update"
    /\ sh_pc' = "render"
    /\ IF sh_game_over # 0
       THEN UNCHANGED << sh_lives, sh_bullets, sh_enemies, sh_spawn_timer, sh_scroll_y,
                         sh_score, sh_game_over, sh_rand_seed, sh_SCY_REG, sh_win >>
       ELSE
         LET scroll == (sh_scroll_y + SCROLL_SPEED) % 256
             st == UpdateEnemiesFrom(0,
                      [enemies |-> sh_enemies, bullets |-> UpdateBullets(sh_bullets),
                       score |-> sh_score, lives |-> sh_lives,
                       game_over |-> sh_game_over, win |-> sh_win])
             slot == FirstInactive(st.enemies, MAX_ENEMIES)
             seed1 == Rand8Next(sh_rand_seed)
             spawn == sh_spawn_timer = 0
         IN  /\ sh_scroll_y' = scroll
             /\ sh_SCY_REG' = scroll
             /\ sh_bullets' = st.bullets
             /\ sh_score' = st.score
             /\ sh_lives' = st.lives
             /\ sh_game_over' = st.game_over
             /\ sh_win' = st.win
             /\ sh_spawn_timer' = IF spawn THEN ENEMY_SPAWN_RATE ELSE sh_spawn_timer - 1
             /\ sh_enemies' =
                  IF spawn /\ slot # -1
                  THEN [st.enemies EXCEPT ![slot] =
                          [x |-> (seed1 % (SH_SCREEN_WIDTH - ENEMY_WIDTH - 16)) + 8,
                           y |-> HUD_HEIGHT + 8, active |-> 1]]
                  ELSE st.enemies
             /\ sh_rand_seed' = IF spawn /\ slot # -1 THEN seed1 ELSE sh_rand_seed
    /\ UNCHANGED << sh_frames, sh_player_x, sh_prev_input, sh_curr_input, sh_oam >>

\* game_render: render_player, render_bullets, render_enemies
ShooterRender ==
    /\ UNCHANGED ShooterOthers
    /\ sh_pc = "render"
    /\ sh_pc' = "vbl"
    /\ LET sx == (sh_player_x + SPRITE_X_OFFSET) % 256
           sy == (PLAYER_START_Y + SPRITE_Y_OFFSET) % 256
           ent(e) == IF e.active # 0
                     THEN << (e.x + SPRITE_X_OFFSET) % 256, (e.y + SPRITE_Y_OFFSET) % 256 >>
                     ELSE <<0, 0>>
       IN sh_oam' = [i \in 0..11 |->
            IF i = SPRITE_PLAYER THEN <<sx, sy>>
            ELSE IF i = SPRITE_PLAYER + 1 THEN <<(sx + 8) % 256, sy>>
            ELSE IF i = SPRITE_PLAYER + 2 THEN <<sx, (sy + 8) % 256>>
            ELSE IF i = SPRITE_PLAYER + 3 THEN <<(sx + 8) % 256, (sy + 8) % 256>>
            ELSE IF i < SPRITE_ENEMY_BASE THEN ent(sh_bullets[i - SPRITE_BULLET_BASE])
            ELSE ent(sh_enemies[i - SPRITE_ENEMY_BASE])]
    /\ UNCHANGED << sh_frames, sh_player_x, sh_lives, sh_bullets, sh_enemies,
                    sh_spawn_timer, sh_scroll_y, sh_score, sh_game_over, sh_rand_seed,
                    sh_prev_input, sh_curr_input, sh_SCY_REG, sh_win >>

ShooterNext ==
    \/ ShooterWaitVbl
    \/ ShooterHandleInput
    \/ ShooterUpdate
    \/ ShooterRender


(***************************************************************************)
(* FISHING                                                                 *)
(***************************************************************************)
FS_STATE_TITLE == 0
FS_STATE_IDLE == 1
FS_STATE_CAST == 2
FS_STATE_WAITING == 3
FS_STATE_BITE == 4
FS_STATE_CATCH == 5
FS_STATE_MISS == 6
FS_STATE_REEL == 7
BOBBER_X == 10
BOBBER_Y_IDLE == 6
BOBBER_Y_WATER == 10
BITE_WINDOW == 30
MIN_WAIT == 60
MAX_WAIT == 240
FS_SEED_INIT == 54321
LCG_MUL == 1103515245
LCG_INC == 12345
FS_TILE_EMPTY == 0
FS_TILE_WATER1 == 1
FS_TILE_WATER2 == 2
FS_TILE_DOCK == 3
FS_TILE_GRASS == 4
FS_TILE_BOBBER_TL == 5
FS_TILE_BOBBER_TR == 6
FS_TILE_BOBBER_BL == 7
FS_TILE_BOBBER_BR == 8
FS_TILE_FISH_TL == 9
FS_TILE_FISH_TR == 10
FS_TILE_FISH_BL == 11
FS_TILE_FISH_BR == 12
FS_TILE_EXCLAIM_T == 13
FS_TILE_EXCLAIM_B == 14
FS_TILE_ROD == 15
FS_TILE_LINE == 16
FS_TILE_F == 17
FS_TILE_I == 18
FS_TILE_S == 19
FS_TILE_H == 20
FS_TILE_N == 21
FS_TILE_G == 22
FS_TILE_C == 23
FS_TILE_A == 24
FS_TILE_T == 25
FS_TILE_P == 27
FS_TILE_R == 28
FS_TILE_E == 29
FS_TILE_COLON == 34
FS_TILE_EXCLAIM == 35
FS_TILE_M == 36
FS_TILE_NUM_0 == 40
FS_TILE_MAN_TL == 50
FS_TILE_MAN_TR == 51
FS_TILE_MAN_ML == 52
FS_TILE_MAN_MR == 53
FS_TILE_MAN_BL == 54
FS_TILE_MAN_BR == 55

\* frames played
MaxFishingFrames == 21

FishingInputs == Masks({J_A, J_START})

FsCells == (0..19) \X (0..17)

\* a sequence of set_bkg_tile_xy(x, y, tile) calls, in order
RECURSIVE FsPut(_, _)
FsPut(b, ws) ==
    IF ws = << >> THEN b
    ELSE FsPut([b EXCEPT ![<< ws[1][1], ws[1][2] >>] = ws[1][3]], Tail(ws))

\* static uint16_t random(void): the next seed; the 32-bit product is cut to
\* the 16 bits of game.seed, which depend on the low 16 bits of the factor
RandomSeed(seed) == ((seed * (LCG_MUL % 65536)) + LCG_INC) % 65536

\* ... and its return value
RandomValue(seed) == BitAnd(RandomSeed(seed) \div 256, 32767, 16)

FsClearScreen == [c \in FsCells |-> FS_TILE_EMPTY]

draw_scene ==
    FsPut([c \in FsCells |->
              IF c[2] \in 5..8 /\ c[1] < 5 THEN FS_TILE_DOCK
              ELSE IF c[2] = 9 /\ c[1] < 5 THEN FS_TILE_GRASS
              ELSE IF c[2] >= 9 /\ c[1] >= 5 THEN FS_TILE_WATER1
              ELSE FS_TILE_EMPTY],
          << <<1, 5, FS_TILE_MAN_TL>>, <<2, 5, FS_TILE_MAN_TR>>,
             <<1, 6, FS_TILE_MAN_ML>>, <<2, 6, FS_TILE_MAN_MR>>,
             <<1, 7, FS_TILE_MAN_BL>>, <<2, 7, FS_TILE_MAN_BR>>,
             <<3, 5, FS_TILE_ROD>>, <<4, 6, FS_TILE_ROD>>, <<5, 7, FS_TILE_ROD>> >>)

draw_hud(b, caught, missed) ==
    FsPut(b, << <<1, 1, FS_TILE_F>>, <<2, 1, FS_TILE_I>>, <<3, 1, FS_TILE_S>>,
                <<4, 1, FS_TILE_H>>, <<5, 1, FS_TILE_COLON>>,
                <<6, 1, FS_TILE_NUM_0 + ((caught \div 10) % 10)>>,
                <<7, 1, FS_TILE_NUM_0 + (caught % 10)>>,
                <<12, 1, FS_TILE_M>>, <<13, 1, FS_TILE_I>>, <<14, 1, FS_TILE_S>>,
                <<15, 1, FS_TILE_S>>, <<16, 1, FS_TILE_COLON>>,
                <<17, 1, FS_TILE_NUM_0 + ((missed \div 10) % 10)>>,
                <<18, 1, FS_TILE_NUM_0 + (missed % 10)>> >>)

draw_title ==
    FsPut(FsClearScreen,
          << <<6, 5, FS_TILE_F>>, <<7, 5, FS_TILE_I>>, <<8, 5, FS_TILE_S>>,
             <<9, 5, FS_TILE_H>>, <<10, 5, FS_TILE_I>>, <<11, 5, FS_TILE_N>>,
             <<12, 5, FS_TILE_G>>,
             <<8, 8, FS_TILE_FISH_TL>>, <<9, 8, FS_TILE_FISH_TR>>,
             <<8, 9, FS_TILE_FISH_BL>>, <<9, 9, FS_TILE_FISH_BR>>,
             <<6, 13, FS_TILE_P>>, <<7, 13, FS_TILE_R>>, <<8, 13, FS_TILE_E>>,
             <<9, 13, FS_TILE_S>>, <<10, 13, FS_TILE_S>>, <<12, 13, FS_TILE_A>> >>)

draw_bobber(b, y) ==
    FsPut(b, << <<BOBBER_X, y, FS_TILE_BOBBER_TL>>, <<BOBBER_X + 1, y, FS_TILE_BOBBER_TR>>,
                <<BOBBER_X, y + 1, FS_TILE_BOBBER_BL>>,
                <<BOBBER_X + 1, y + 1, FS_TILE_BOBBER_BR>>,
                <<6, 8, FS_TILE_LINE>>, <<7, 9, FS_TILE_LINE>> >>
             \o (IF y > BOBBER_Y_IDLE + 2
                 THEN << <<8, 10, FS_TILE_LINE>>, <<9, 11, FS_TILE_LINE>> >>
                 ELSE << >>))

FsWaterOrEmpty(y) == IF y >= 9 THEN FS_TILE_WATER1 ELSE FS_TILE_EMPTY

clear_bobber(b, y) ==
    FsPut(b, << <<BOBBER_X, y, FsWaterOrEmpty(y)>>, <<BOBBER_X + 1, y, FsWaterOrEmpty(y)>>,
                <<BOBBER_X, y + 1, FsWaterOrEmpty(y + 1)>>,
                <<BOBBER_X + 1, y + 1, FsWaterOrEmpty(y + 1)>>,
                <<6, 8, FS_TILE_EMPTY>>, <<7, 9, FS_TILE_WATER1>>,
                <<8, 10, FS_TILE_WATER1>>, <<9, 11, FS_TILE_WATER1>> >>)

draw_bite_indicator(b, y) ==
    FsPut(b, << <<BOBBER_X, y - 2, FS_TILE_EXCLAIM_T>>,
                <<BOBBER_X, y - 1, FS_TILE_EXCLAIM_B>> >>)

clear_bite_indicator(b, y) ==
    FsPut(b, << <<BOBBER_X, y - 2, FS_TILE_EMPTY>>, <<BOBBER_X, y - 1, FS_TILE_EMPTY>> >>)

\* draw_message(msg, len), msg given as its tiles
draw_message(b, tiles) ==
    LET x == (20 - Len(tiles)) \div 2
    IN  [c \in FsCells |->
            IF c[2] = 3 /\ c[1] >= x /\ c[1] < x + Len(tiles)
            THEN tiles[c[1] - x + 1] ELSE b[c]]

FsMsgCast == << FS_TILE_C, FS_TILE_A, FS_TILE_S, FS_TILE_T, FS_TILE_EXCLAIM >>
FsMsgCatch == << FS_TILE_C, FS_TILE_A, FS_TILE_T, FS_TILE_C, FS_TILE_H, FS_TILE_EXCLAIM >>
FsMsgMiss == << FS_TILE_M, FS_TILE_I, FS_TILE_S, FS_TILE_S, FS_TILE_EXCLAIM >>

clear_message(b) == [c \in FsCells |-> IF c[2] = 3 THEN FS_TILE_EMPTY ELSE b[c]]

\* animate_water(): the structure after the call and the tile map
animate_water(g, b) ==
    LET t == (g.water_timer + 1) % 256
    IN  IF t >= 20
        THEN LET f == (1 - g.water_frame) % 256
                 tile == IF f # 0 THEN FS_TILE_WATER2 ELSE FS_TILE_WATER1
                 kept(c) == /\ g.state >= FS_STATE_WAITING /\ g.state <= FS_STATE_REEL
                            /\ c[1] >= BOBBER_X /\ c[1] <= BOBBER_X + 1
                            /\ c[2] >= g.bobber_y /\ c[2] <= g.bobber_y + 1
             IN  [g |-> [g EXCEPT !.water_timer = 0, !.water_frame = f],
                  b |-> [c \in FsCells |->
                            IF c[2] >= 9 /\ c[1] >= 5 /\ ~kept(c) THEN tile ELSE b[c]]]
        ELSE [g |-> [g EXCEPT !.water_timer = t], b |-> b]

start_cast(g, b) ==
    [g |-> [g EXCEPT !.state = FS_STATE_CAST, !.bobber_y = BOBBER_Y_IDLE, !.anim_timer = 0],
     b |-> draw_bobber(b, BOBBER_Y_IDLE)]

start_waiting(g, b) ==
    [g |-> [g EXCEPT !.state = FS_STATE_WAITING, !.bobber_y = BOBBER_Y_WATER,
                     !.seed = RandomSeed(g.seed),
                     !.wait_timer = MIN_WAIT + (RandomValue(g.seed) % (MAX_WAIT - MIN_WAIT))],
     b |-> draw_bobber(clear_bobber(b, BOBBER_Y_WATER), BOBBER_Y_WATER)]

\* a level-triggered report: every held button counts as pressed
JoyHeldAsPressed(joy, prev) == joy

\* uint8_t joy_pressed = joy & ~game.joypad_prev;
JoyPressed(joy, prev) == BitAnd(joy, Not8(prev), 8)

\* game_init(); the fields it leaves alone are zero at program start
FishingInit ==
    /\ fs_pc = "vbl"
    /\ fs_frames = 0
    /\ fs_game = [state |-> FS_STATE_TITLE, fish_caught |-> 0, fish_missed |-> 0,
                  wait_timer |-> 0, bite_timer |-> 0, anim_timer |-> 0,
                  bobber_y |-> 0, water_frame |-> 0, water_timer |-> 0,
                  seed |-> FS_SEED_INIT, joypad_prev |-> 0]
    /\ fs_bkg = draw_title
    /\ fs_joy = 0
    /\ fs_joy_pressed = 0
    /\ fs_joy_before = 0
    /\ fs_reads = 0
    /\ fs_run = << >>

FishingParked ==
    /\ fs_pc = "off"
    /\ fs_frames = 0
    /\ fs_game = << >>
    /\ fs_bkg = << >>
    /\ fs_joy = 0
    /\ fs_joy_pressed = 0
    /\ fs_joy_before = 0
    /\ fs_reads = 0
    /\ fs_run = << >>

\* wait_vbl_done() in main's loop
FishingWaitVbl ==
    /\ UNCHANGED FishingOthers
    /\ fs_pc = "vbl"
    /\ fs_frames < MaxFishingFrames
    /\ fs_pc' = "update"
    /\ fs_frames' = fs_frames + 1
    /\ fs_reads' = 0
    /\ UNCHANGED << fs_game, fs_bkg, fs_joy, fs_joy_pressed, fs_joy_before, fs_run >>

\* the switch of game_update: structure and tile map after the case taken
FsSwitch(g, b, pressedA) ==
    CASE g.state = FS_STATE_TITLE ->
            IF pressedA
            THEN [g |-> [g EXCEPT !.state = FS_STATE_IDLE],
                  b |-> draw_message(draw_hud(draw_scene, g.fish_caught, g.fish_missed),
                                     FsMsgCast)]
            ELSE [g |-> g, b |-> b]
      [] g.state = FS_STATE_IDLE ->
            LET w == animate_water(g, b)
            IN  IF pressedA THEN start_cast(w.g, clear_message(w.b)) ELSE w
      [] g.state = FS_STATE_CAST ->
            LET t == (g.anim_timer + 1) % 65536
                y == (g.bobber_y + 1) % 256
                g1 == [g EXCEPT !.anim_timer = t]
            IN  IF t % 4 = 0
                THEN IF y >= BOBBER_Y_WATER
                     THEN start_waiting([g1 EXCEPT !.bobber_y = y],
                                        clear_bobber(b, g.bobber_y))
                     ELSE [g |-> [g1 EXCEPT !.bobber_y = y],
                           b |-> draw_bobber(clear_bobber(b, g.bobber_y), y)]
                ELSE [g |-> g1, b |-> b]
      [] g.state = FS_STATE_WAITING ->
            LET w == animate_water(g, b)
                t == (w.g.anim_timer + 1) % 65536
                y == BOBBER_Y_WATER + ((t \div 30) % 2)
                g1 == IF t % 30 = 0
                      THEN [w.g EXCEPT !.anim_timer = t, !.bobber_y = y]
                      ELSE [w.g EXCEPT !.anim_timer = t]
                b1 == IF t % 30 = 0
                      THEN draw_bobber(clear_bobber(w.b, w.g.bobber_y), y)
                      ELSE w.b
            IN  IF g1.wait_timer > 0
                THEN [g |-> [g1 EXCEPT !.wait_timer = g1.wait_timer - 1], b |-> b1]
                ELSE [g |-> [g1 EXCEPT !.state = FS_STATE_BITE, !.bite_timer = BITE_WINDOW],
                      b |-> draw_bite_indicator(b1, g1.bobber_y)]
      [] g.state = FS_STATE_BITE ->
            LET w == animate_water(g, b)
                t == (w.g.anim_timer + 1) % 65536
                g1 == [w.g EXCEPT !.anim_timer = t]
                b1 == IF t % 8 < 4 THEN draw_bite_indicator(w.b, g1.bobber_y)
                      ELSE clear_bite_indicator(w.b, g1.bobber_y)
                bt == (g1.bite_timer - 1) % 65536
            IN  IF pressedA
                THEN LET n == (g1.fish_caught + 1) % 256
                     IN  [g |-> [g1 EXCEPT !.state = FS_STATE_CATCH, !.fish_caught = n,
                                           !.anim_timer = 0],
                          b |-> draw_message(
                                    draw_hud(clear_bite_indicator(b1, g1.bobber_y),
                                             n, g1.fish_missed),
                                    FsMsgCatch)]
                ELSE IF bt = 0
                THEN LET n == (g1.fish_missed + 1) % 256
                     IN  [g |-> [g1 EXCEPT !.state = FS_STATE_MISS, !.fish_missed = n,
                                           !.bite_timer = bt, !.anim_timer = 0],
                          b |-> draw_message(
                                    draw_hud(clear_bite_indicator(b1, g1.bobber_y),
                                             g1.fish_caught, n),
                                    FsMsgMiss)]
                ELSE [g |-> [g1 EXCEPT !.bite_timer = bt], b |-> b1]
      [] g.state = FS_STATE_CATCH ->
            LET w == animate_water(g, b)
                t == (w.g.anim_timer + 1) % 65536
                g1 == [w.g EXCEPT !.anim_timer = t]
                y == g1.bobber_y
                b1 == IF t = 20
                      THEN FsPut(w.b, << <<BOBBER_X - 1, y, FS_TILE_FISH_TL>>,
                                         <<BOBBER_X, y, FS_TILE_FISH_TR>>,
                                         <<BOBBER_X - 1, y + 1, FS_TILE_FISH_BL>>,
                                         <<BOBBER_X, y + 1, FS_TILE_FISH_BR>> >>)
                      ELSE w.b
            IN  IF t >= 90
                THEN [g |-> [g1 EXCEPT !.state = FS_STATE_IDLE],
                      b |-> draw_message(
                                FsPut(clear_message(clear_bobber(b1, y)),
                                      << <<BOBBER_X - 1, y, FS_TILE_WATER1>>,
                                         <<BOBBER_X, y, FS_TILE_WATER1>>,
                                         <<BOBBER_X - 1, y + 1, FS_TILE_WATER1>>,
                                         <<BOBBER_X, y + 1, FS_TILE_WATER1>> >>),
                                FsMsgCast)]
                ELSE [g |-> g1, b |-> b1]
      [] g.state = FS_STATE_MISS ->
            LET w == animate_water(g, b)
                t == (w.g.anim_timer + 1) % 65536
                g1 == [w.g EXCEPT !.anim_timer = t]
            IN  IF t >= 60
                THEN [g |-> [g1 EXCEPT !.state = FS_STATE_IDLE],
                      b |-> draw_message(clear_message(clear_bobber(w.b, g1.bobber_y)),
                                         FsMsgCast)]
                ELSE [g |-> g1, b |-> w.b]
      [] OTHER -> [g |-> g, b |-> b]

\* the A-edge reports of the latest reads, kept while those reads spell the
\* start of 0x00, 0x10, 0x10, 0x00
FsPattern == << 0, J_A, J_A, 0 >>

FsRunNext(run, joy, pressedA) ==
    LET k == IF Len(run) = Len(FsPattern) THEN 1 ELSE Len(run)
        kept == SubSeq(run, Len(run) - k + 1, Len(run))
    IN  IF joy = FsPattern[k + 1] THEN Append(kept, pressedA)
        ELSE IF joy = FsPattern[1] THEN << pressedA >>
        ELSE << >>

\* game_update()
FishingUpdate ==
    /\ UNCHANGED FishingOthers
    /\ fs_pc = "update"
    /\ \E joy \in FishingInputs :
          LET joy_pressed == JoyPressed(joy, fs_game.joypad_prev)
              pressedA == BitAnd(joy_pressed, J_A, 8) # 0
              g0 == [fs_game EXCEPT !.seed = (fs_game.seed + 1) % 65536]
              r == FsSwitch(g0, fs_bkg, pressedA)
          IN  /\ fs_game' = [r.g EXCEPT !.joypad_prev = joy]
              /\ fs_bkg' = r.b
              /\ fs_joy' = joy
              /\ fs_joy_pressed' = joy_pressed
              /\ fs_joy_before' = fs_joy
              /\ fs_reads' = fs_reads + 1
              /\ fs_run' = FsRunNext(fs_run, joy, pressedA)
    /\ fs_pc' = "vbl"
    /\ UNCHANGED fs_frames

FishingNext ==
    \/ FishingWaitVbl
    \/ FishingUpdate

(***************************************************************************)
(* PUZZLE                                                                  *)
(***************************************************************************)
GRID_WIDTH == 10
GRID_HEIGHT == 18
GRID_OFFSET_X == 5
GRID_OFFSET_Y == 0
PIECE_I == 0
PIECE_O == 1
PIECE_T == 2
NUM_PIECES == 7
DROP_SPEED_NORMAL == 30
DROP_SPEED_FAST == 3
PZ_TILE_EMPTY == 0
PZ_TILE_BLOCK == 1
PZ_TILE_ACTIVE == 2
PZ_TILE_WALL == 3
PZ_RAND_SEED_INIT == 42
SPAWN_X == 3
SPAWN_Y == 0

\* frames played
MaxPuzzleFrames == 2

\* frames the two runs of a replay play
MaxReplayFrames == 2

PuzzleInputs == {0, J_LEFT, J_RIGHT, J_A, J_DOWN, J_START}

PzRows == 0..(GRID_HEIGHT - 1)
PzCols == 0..(GRID_WIDTH - 1)

\* const uint8_t pieces[7][4][4][4]
pieces ==
    << \* I
       << << <<0,0,0,0>>, <<1,1,1,1>>, <<0,0,0,0>>, <<0,0,0,0>> >>,
          << <<0,0,1,0>>, <<0,0,1,0>>, <<0,0,1,0>>, <<0,0,1,0>> >>,
          << <<0,0,0,0>>, <<0,0,0,0>>, <<1,1,1,1>>, <<0,0,0,0>> >>,
          << <<0,1,0,0>>, <<0,1,0,0>>, <<0,1,0,0>>, <<0,1,0,0>> >> >>,
       \* O
       << << <<0,0,0,0>>, <<0,1,1,0>>, <<0,1,1,0>>, <<0,0,0,0>> >>,
          << <<0,0,0,0>>, <<0,1,1,0>>, <<0,1,1,0>>, <<0,0,0,0>> >>,
          << <<0,0,0,0>>, <<0,1,1,0>>, <<0,1,1,0>>, <<0,0,0,0>> >>,
          << <<0,0,0,0>>, <<0,1,1,0>>, <<0,1,1,0>>, <<0,0,0,0>> >> >>,
       \* T
       << << <<0,0,0,0>>, <<1,1,1,0>>, <<0,1,0,0>>, <<0,0,0,0>> >>,
          << <<0,1,0,0>>, <<1,1,0,0>>, <<0,1,0,0>>, <<0,0,0,0>> >>,
          << <<0,1,0,0>>, <<1,1,1,0>>, <<0,0,0,0>>, <<0,0,0,0>> >>,
          << <<0,1,0,0>>, <<0,1,1,0>>, <<0,1,0,0>>, <<0,0,0,0>> >> >>,
       \* S
       << << <<0,0,0,0>>, <<0,1,1,0>>, <<1,1,0,0>>, <<0,0,0,0>> >>,
          << <<0,1,0,0>>, <<0,1,1,0>>, <<0,0,1,0>>, <<0,0,0,0>> >>,
          << <<0,0,0,0>>, <<0,1,1,0>>, <<1,1,0,0>>, <<0,0,0,0>> >>,
          << <<0,1,0,0>>, <<0,1,1,0>>, <<0,0,1,0>>, <<0,0,0,0>> >> >>,
       \* Z
       << << <<0,0,0,0>>, <<1,1,0,0>>, <<0,1,1,0>>, <<0,0,0,0>> >>,
          << <<0,0,1,0>>, <<0,1,1,0>>, <<0,1,0,0>>, <<0,0,0,0>> >>,
          << <<0,0,0,0>>, <<1,1,0,0>>, <<0,1,1,0>>, <<0,0,0,0>> >>,
          << <<0,0,1,0>>, <<0,1,1,0>>, <<0,1,0,0>>, <<0,0,0,0>> >> >>,
       \* L
       << << <<0,0,0,0>>, <<1,1,1,0>>, <<1,0,0,0>>, <<0,0,0,0>> >>,
          << <<1,1,0,0>>, <<0,1,0,0>>, <<0,1,0,0>>, <<0,0,0,0>> >>,
          << <<0,0,1,0>>, <<1,1,1,0>>, <<0,0,0,0>>, <<0,0,0,0>> >>,
          << <<0,1,0,0>>, <<0,1,0,0>>, <<0,1,1,0>>, <<0,0,0,0>> >> >>,
       \* J
       << << <<0,0,0,0>>, <<1,1,1,0>>, <<0,0,1,0>>, <<0,0,0,0>> >>,
          << <<0,1,0,0>>, <<0,1,0,0>>, <<1,1,0,0>>, <<0,0,0,0>> >>,
          << <<1,0,0,0>>, <<1,1,1,0>>, <<0,0,0,0>>, <<0,0,0,0>> >>,
          << <<0,1,1,0>>, <<0,1,0,0>>, <<0,1,0,0>>, <<0,0,0,0>> >> >> >>

\* pieces[type][rotation][row][col]
PieceAt(type, rotation, row, col) == pieces[type + 1][rotation + 1][row + 1][col + 1]

\* rand8(): the seed after the call, which is also the value returned
PzRand8(seed) ==
    LET s1 == BitXor(seed, (seed * 8) % 256, 8)
        s2 == BitXor(s1, s1 \div 32, 8)
    IN  BitXor(s2, (s2 * 16) % 256, 8)

\* the sixteen footprint positions <<row, col>> in the order the loops over
\* row and col visit them
PzScanOrder == [k \in 1..16 |-> << (k - 1) \div 4, (k - 1) % 4 >>]

\* the positions at which pieces[type][rotation][row][col] is set, in that order
PzFootprints ==
    [type \in 0..6 |-> [rotation \in 0..3 |->
        SelectSeq(PzScanOrder, LAMBDA rc : PieceAt(type, rotation, rc[1], rc[2]) # 0)]]

PzFootprint(type, rotation) == PzFootprints[type][rotation]

\* a check of the columns and the floor alone, blind to the blocks in the grid
RECURSIVE CanPlaceInBounds(_, _, _, _)
CanPlaceInBounds(grid, px, py, cells) ==
    IF cells = << >> THEN 1
    ELSE IF ToInt8(px + cells[1][2]) < 0 \/ ToInt8(px + cells[1][2]) >= GRID_WIDTH THEN 0
    ELSE IF ToInt8(py + cells[1][1]) >= GRID_HEIGHT THEN 0
    ELSE CanPlaceInBounds(grid, px, py, Tail(cells))

\* can_place over the set cells still to visit: the scan returns at the
\* first one that fails a test
RECURSIVE CanPlaceScan(_, _, _, _)
CanPlaceScan(grid, px, py, cells) ==
    IF cells = << >> THEN 1
    ELSE LET gx == ToInt8(px + cells[1][2])
             gy == ToInt8(py + cells[1][1])
         IN  IF gx < 0 \/ gx >= GRID_WIDTH THEN 0
             ELSE IF gy >= GRID_HEIGHT THEN 0
             ELSE IF gy >= 0 /\ grid[gy][gx] # 0 THEN 0
             ELSE CanPlaceScan(grid, px, py, Tail(cells))

can_place(grid, px, py, type, rotation) ==
    CanPlaceScan(grid, px, py, PzFootprint(type, rotation))

PzOnGrid(gx, gy) == gy >= 0 /\ gy < GRID_HEIGHT /\ gx >= 0 /\ gx < GRID_WIDTH

\* a lock that stores nothing
LockedGridUntouched(grid, p, cells) == grid

\* the loops of lock_piece over the set cells still to visit
RECURSIVE LockedGrid(_, _, _)
LockedGrid(grid, p, cells) ==
    IF cells = << >> THEN grid
    ELSE LET gx == ToInt8(p.x + cells[1][2])
             gy == ToInt8(p.y + cells[1][1])
         IN  LockedGrid(IF PzOnGrid(gx, gy) THEN [grid EXCEPT ![gy][gx] = 1] ELSE grid,
                        p, Tail(cells))

\* a lock that never asks for the full redraw
LockPieceNoRedraw(g) ==
    [g EXCEPT !.grid = LockedGrid(g.grid, g.current,
                                 PzFootprint(g.current.type, g.current.rotation))]

\* lock_piece()

lock_piece(g) ==
    [g EXCEPT !.grid = LockedGrid(g.grid, g.current,
                                 PzFootprint(g.current.type, g.current.rotation)),
               !.needs_redraw = 1]

\* a spawn that never looks whether the new piece has room
SpawnUnchecked(g, seed) ==
    [g |-> [g EXCEPT !.current = [type |-> g.next_piece, rotation |-> 0,
                                  x |-> SPAWN_X, y |-> SPAWN_Y],
                     !.prev_x = SPAWN_X, !.prev_y = SPAWN_Y,
                     !.prev_type = g.next_piece, !.prev_rotation = 0,
                     !.next_piece = PzRand8(seed) % NUM_PIECES,
                     !.drop_timer = 0],
     seed |-> PzRand8(seed)]

\* spawn_piece(): the next piece enters at the top, the game is over if it
\* has no room
spawn_piece(g, seed) ==
    LET type == g.next_piece
        seed1 == PzRand8(seed)
        fits == can_place(g.grid, SPAWN_X, SPAWN_Y, type, 0)
    IN  [g |-> [g EXCEPT !.current = [type |-> type, rotation |-> 0,
                                      x |-> SPAWN_X, y |-> SPAWN_Y],
                         !.prev_x = SPAWN_X, !.prev_y = SPAWN_Y,
                         !.prev_type = type, !.prev_rotation = 0,
                         !.next_piece = seed1 % NUM_PIECES,
                         !.game_over = IF fits = 0 THEN 1 ELSE g.game_over,
                         !.drop_timer = 0],
         seed |-> seed1]

\* a line clear that empties the full row and moves nothing
ClearRowInPlace(grid, row) == [grid EXCEPT ![row] = [c \in PzCols |-> 0]]

\* the inner loops of check_lines for one full row: rows above move down
\* one place, row 0 is cleared
ShiftRowsDown(grid, row) ==
    [r \in PzRows |->
        IF r = 0 THEN [c \in PzCols |-> 0]
        ELSE IF r <= row THEN grid[r - 1]
        ELSE grid[r]]

\* the outer loop of check_lines from `row' on: the grid and lines_cleared
RECURSIVE CheckLinesScan(_, _, _)
CheckLinesScan(grid, row, cleared) ==
    IF row = GRID_HEIGHT THEN [grid |-> grid, lines_cleared |-> cleared]
    ELSE IF \A c \in PzCols : grid[row][c] # 0
         THEN CheckLinesScan(ShiftRowsDown(grid, row), row + 1, (cleared + 1) % 256)
         ELSE CheckLinesScan(grid, row + 1, cleared)

\* game.score += lines_cleared * 100 + (lines_cleared - 1) * 100;
LineScore(lines_cleared) == lines_cleared * 100 + (lines_cleared - 1) * 100

check_lines(g) ==
    LET s == CheckLinesScan(g.grid, 0, 0)
    IN  IF s.lines_cleared > 0
        THEN [g EXCEPT !.grid = s.grid,
                       !.lines = (g.lines + s.lines_cleared) % 65536,
                       !.score = (g.score + LineScore(s.lines_cleared)) % 65536,
                       !.needs_redraw = 1]
        ELSE [g EXCEPT !.grid = s.grid]

\* the background cells kept: the two wall columns and the playfield between
\* them; game_init stores TILE_EMPTY in every other column and nothing else
\* is ever stored there
PzBkgCells == ((GRID_OFFSET_X - 1)..(GRID_OFFSET_X + GRID_WIDTH)) \X PzRows

PzGridTile(grid, r, c) == IF grid[r][c] # 0 THEN PZ_TILE_BLOCK ELSE PZ_TILE_EMPTY

PzInField(cell) ==
    /\ cell[1] - GRID_OFFSET_X \in PzCols
    /\ cell[2] - GRID_OFFSET_Y \in PzRows

draw_border(b) ==
    [cell \in PzBkgCells |->
        IF cell[1] = GRID_OFFSET_X - 1 \/ cell[1] = GRID_OFFSET_X + GRID_WIDTH
        THEN PZ_TILE_WALL ELSE b[cell]]

draw_grid(b, grid) ==
    [cell \in PzBkgCells |->
        IF PzInField(cell)
        THEN PzGridTile(grid, cell[2] - GRID_OFFSET_Y, cell[1] - GRID_OFFSET_X)
        ELSE b[cell]]

draw_game_over(b) ==
    [cell \in PzBkgCells |->
        IF cell[2] = 9 /\ cell[1] \in 6..13 THEN PZ_TILE_WALL ELSE b[cell]]

\* restore_grid_tile(gx, gy)
restore_grid_tile(b, grid, gx, gy) ==
    IF PzOnGrid(gx, gy)
    THEN [b EXCEPT ![<< GRID_OFFSET_X + gx, GRID_OFFSET_Y + gy >>] = PzGridTile(grid, gy, gx)]
    ELSE b

\* a piece update that erases nothing
RestoreSkipped(b, g, cells) == b

\* the first loops of game_render's piece update, over the set cells of the
\* previous footprint still to visit
RECURSIVE RestoreUncovered(_, _, _)
RestoreUncovered(b, g, cells) ==
    IF cells = << >> THEN b
    ELSE LET gx == ToInt8(g.prev_x + cells[1][2])
             gy == ToInt8(g.prev_y + cells[1][1])
             local_x == ToInt8(gx - g.current.x)
             local_y == ToInt8(gy - g.current.y)
             covered == /\ local_x >= 0 /\ local_x < 4 /\ local_y >= 0 /\ local_y < 4
                        /\ PieceAt(g.current.type, g.current.rotation, local_y, local_x) # 0
         IN  RestoreUncovered(IF covered THEN b ELSE restore_grid_tile(b, g.grid, gx, gy),
                              g, Tail(cells))

\* draw_piece() over the set cells still to visit
RECURSIVE draw_piece(_, _, _)
draw_piece(b, p, cells) ==
    IF cells = << >> THEN b
    ELSE LET gx == ToInt8(p.x + cells[1][2])
             gy == ToInt8(p.y + cells[1][1])
         IN  draw_piece(IF PzOnGrid(gx, gy)
                        THEN [b EXCEPT ![<< GRID_OFFSET_X + gx, GRID_OFFSET_Y + gy >>] =
                                          PZ_TILE_ACTIVE]
                        ELSE b,
                        p, Tail(cells))

\* game_render's piece update: restore, then draw
draw_piece_over_restored(b, g) ==
    draw_piece(RestoreUncovered(b, g, PzFootprint(g.prev_type, g.prev_rotation)),
               g.current, PzFootprint(g.current.type, g.current.rotation))

\* game_init()
game_init(g, seed) ==
    LET seed1 == PzRand8(seed)
        g1 == [g EXCEPT !.grid = [r \in PzRows |-> [c \in PzCols |-> 0]],
                        !.score = 0, !.lines = 0, !.game_over = 0, !.drop_timer = 0,
                        !.drop_speed = DROP_SPEED_NORMAL, !.needs_redraw = 1,
                        !.next_piece = seed1 % NUM_PIECES]
        s == spawn_piece(g1, seed1)
    IN  [g |-> s.g, seed |-> s.seed,
         b |-> draw_border([cell \in PzBkgCells |-> PZ_TILE_EMPTY])]

\* the structure before main runs: static storage is zero
PzZeroGame ==
    [grid |-> [r \in PzRows |-> [c \in PzCols |-> 0]],
     current |-> [type |-> 0, rotation |-> 0, x |-> 0, y |-> 0],
     next_piece |-> 0, drop_timer |-> 0, drop_speed |-> 0, score |-> 0, lines |-> 0,
     game_over |-> 0, needs_redraw |-> 0,
     prev_x |-> 0, prev_y |-> 0, prev_type |-> 0, prev_rotation |-> 0]

\* main() up to its loop
PuzzleBoot ==
    LET i == game_init(PzZeroGame, PZ_RAND_SEED_INIT)
    IN  /\ pz_pc = "vbl"
        /\ pz_frames = 0
        /\ pz_game = i.g
        /\ pz_rand_seed = i.seed
        /\ pz_bkg = i.b
        /\ pz_prev_input = 0
        /\ pz_curr_input = 0
        /\ pz_joy = 0
        /\ pz_curr_before = 0
        /\ pz_reads = 0
        /\ pz_lock = << >>

\* stacks of earlier play: rows top..17 filled but for the columns in
\* `holes', and the cells in `extra' besides
PzStack(top, holes, extra) ==
    [r \in PzRows |-> [c \in PzCols |->
        IF (r >= top /\ c \notin holes) \/ << r, c >> \in extra THEN 1 ELSE 0]]

\* grids that legal drops without a line clear build up (so score and lines
\* are still 0): empty; four rows with a one-column well; two rows with a
\* two-column well; two rows six wide; three rows with a well and one block
\* on top; a two-column tower up to row 4
PuzzleGrids ==
    { PzStack(GRID_HEIGHT, {}, {}) }
    \cup { PzStack(GRID_HEIGHT - 4, {c}, {}) : c \in {0, 4, 9} }
    \cup { PzStack(GRID_HEIGHT - 2, {4, 5}, {}),
           PzStack(GRID_HEIGHT - 2, 6..9, {}),
           PzStack(GRID_HEIGHT - 3, {9}, {<< GRID_HEIGHT - 4, 0 >>}),
           PzStack(4, PzCols \ {3, 4}, {}) }

PzPlacements == [type : 0..(NUM_PIECES - 1), rotation : 0..3, x : -2..9, y : PzRows]

\* a piece that fits and is at most one row above where it comes to rest
PzNearRest(grid, p) ==
    /\ can_place(grid, p.x, p.y, p.type, p.rotation) = 1
    /\ \/ can_place(grid, p.x, p.y + 1, p.type, p.rotation) = 0
       \/ can_place(grid, p.x, p.y + 2, p.type, p.rotation) = 0

\* a resting piece whose lock clears a line or leaves no room for the next
PzEventful(grid, p, next) ==
    /\ can_place(grid, p.x, p.y, p.type, p.rotation) = 1
    /\ can_place(grid, p.x, p.y + 1, p.type, p.rotation) = 0
    /\ LET s == CheckLinesScan(LockedGrid(grid, p, PzFootprint(p.type, p.rotation)), 0, 0)
       IN  \/ s.lines_cleared > 0
           \/ can_place(s.grid, SPAWN_X, SPAWN_Y, next, 0) = 0

\* the structure in mid-game, just after a render, no button held
PzMidGame(grid, p, next, timer) ==
    [grid |-> grid, current |-> p, next_piece |-> next, drop_timer |-> timer,
     drop_speed |-> DROP_SPEED_NORMAL, score |-> 0, lines |-> 0,
     game_over |-> 0, needs_redraw |-> 0,
     prev_x |-> p.x, prev_y |-> p.y, prev_type |-> p.type, prev_rotation |-> p.rotation]

PzMidBkg(g) ==
    draw_piece_over_restored(
        draw_grid(draw_border([cell \in PzBkgCells |-> PZ_TILE_EMPTY]), g.grid), g)

PzMidState(pc, reads, g) ==
    /\ pz_pc = pc
    /\ pz_frames = 0
    /\ pz_game = g
    /\ pz_rand_seed = PzRand8(PzRand8(PZ_RAND_SEED_INIT))
    /\ pz_bkg = PzMidBkg(g)
    /\ pz_prev_input = 0
    /\ pz_curr_input = 0
    /\ pz_joy = 0
    /\ pz_curr_before = 0
    /\ pz_reads = reads
    /\ pz_lock = << >>

PuzzleEventfulStarts ==
    { s \in PuzzleGrids \X PzPlacements \X {PIECE_I, PIECE_O} : PzEventful(s[1], s[2], s[3]) }

\* play from power-on, from a fresh piece over a stack, or from a piece
\* about to lock
PuzzleInit ==
    \/ PuzzleBoot
    \/ \E grid \in PuzzleGrids, type \in 0..(NUM_PIECES - 1) :
          LET p == [type |-> type, rotation |-> 0, x |-> SPAWN_X, y |-> SPAWN_Y]
          IN  /\ can_place(grid, p.x, p.y, p.type, p.rotation) = 1
              /\ PzMidState("input", 0, PzMidGame(grid, p, PIECE_O, 0))
    \/ \E s \in PuzzleEventfulStarts :
          PzMidState("input", 0, PzMidGame(s[1], s[2], s[3], DROP_SPEED_NORMAL - 1))

\* game_update about to run on a piece at or next to its resting place
PuzzleLockStarts ==
    { s \in PuzzleGrids \X PzPlacements : PzNearRest(s[1], s[2]) }

PuzzleLockInit ==
    \E s \in PuzzleLockStarts, next \in {PIECE_I, PIECE_O, PIECE_T},
       timer \in {0, DROP_SPEED_NORMAL - 1} :
        PzMidState("update", 1, PzMidGame(s[1], s[2], next, timer))

PuzzleParked ==
    /\ pz_pc = "off"
    /\ pz_frames = 0
    /\ pz_game = << >>
    /\ pz_rand_seed = 0
    /\ pz_bkg = << >>
    /\ pz_prev_input = 0
    /\ pz_curr_input = 0
    /\ pz_joy = 0
    /\ pz_curr_before = 0
    /\ pz_reads = 0
    /\ pz_lock = << >>

\* wait_vbl_done() in main's loop
PuzzleWaitVbl ==
    /\ UNCHANGED PuzzleOthers
    /\ pz_pc = "vbl"
    /\ pz_frames < MaxPuzzleFrames
    /\ pz_pc' = "render"
    /\ pz_frames' = pz_frames + 1
    /\ pz_reads' = 0
    /\ pz_curr_before' = pz_curr_input
    /\ UNCHANGED << pz_game, pz_prev_input, pz_curr_input, pz_rand_seed, pz_bkg,
                    pz_joy, pz_lock >>

\* what game_render leaves in the game structure: needs_redraw cleared, and
\* the mirror of the piece drawn brought up to date unless the game is over
PzRendered(g) ==
    LET g1 == [g EXCEPT !.needs_redraw = 0]
    IN  IF g1.game_over # 0 THEN g1
        ELSE [g1 EXCEPT !.prev_x = g1.current.x,
                        !.prev_y = g1.current.y,
                        !.prev_type = g1.current.type,
                        !.prev_rotation = g1.current.rotation]

\* game_render()
PuzzleRender ==
    /\ UNCHANGED PuzzleOthers
    /\ pz_pc = "render"
    /\ LET b1 == IF pz_game.needs_redraw # 0 THEN draw_grid(pz_bkg, pz_game.grid)
                 ELSE pz_bkg
       IN  pz_bkg' = IF pz_game.game_over # 0 THEN draw_game_over(b1)
                     ELSE draw_piece_over_restored(b1, pz_game)
    /\ pz_game' = PzRendered(pz_game)
    /\ pz_pc' = "input"
    /\ UNCHANGED << pz_frames, pz_prev_input, pz_curr_input, pz_rand_seed, pz_joy,
                    pz_curr_before, pz_reads, pz_lock >>

\* a move left made without asking can_place
PzMoveLeftUnchecked(g, pressed) ==
    IF Held(pressed, J_LEFT)
    THEN [g EXCEPT !.current.x = ToInt8(g.current.x - 1)]
    ELSE g

\* the moves of game_handle_input, in its order: left, right, rotate
PzMoveLeft(g, pressed) ==
    IF Held(pressed, J_LEFT)
       /\ can_place(g.grid, g.current.x - 1, g.current.y,
                    g.current.type, g.current.rotation) # 0
    THEN [g EXCEPT !.current.x = ToInt8(g.current.x - 1)]
    ELSE g

PzMoveRight(g, pressed) ==
    IF Held(pressed, J_RIGHT)
       /\ can_place(g.grid, g.current.x + 1, g.current.y,
                    g.current.type, g.current.rotation) # 0
    THEN [g EXCEPT !.current.x = ToInt8(g.current.x + 1)]
    ELSE g

\* a rotation with a wall kick: blocked in place, it tries one column left
PzRotateKick(g, pressed) ==
    LET new_rot == BitAnd(g.current.rotation + 1, 3, 8)
    IN  IF ~Held(pressed, J_A) THEN g
        ELSE IF can_place(g.grid, g.current.x, g.current.y, g.current.type, new_rot) # 0
        THEN [g EXCEPT !.current.rotation = new_rot]
        ELSE IF can_place(g.grid, g.current.x - 1, g.current.y, g.current.type, new_rot) # 0
        THEN [g EXCEPT !.current.rotation = new_rot, !.current.x = g.current.x - 1]
        ELSE g

\* rotate: (rotation + 1) & 3 if the piece fits so, in place

PzRotate(g, pressed) ==
    LET new_rot == BitAnd(g.current.rotation + 1, 3, 8)
    IN  IF Held(pressed, J_A)
           /\ can_place(g.grid, g.current.x, g.current.y, g.current.type, new_rot) # 0
        THEN [g EXCEPT !.current.rotation = new_rot]
        ELSE g

\* a handler that leaves prev_input as it was
PzPrevKept(prev, curr) == prev

\* prev_input = curr_input;
PzPrevStored(prev, curr) == curr

\* a mask that takes every held button for a press
PzPressedHeld(curr, prev) == curr

\* uint8_t pressed = curr_input & ~prev_input;
PzPressed(curr, prev) == BitAnd(curr, Not8(prev), 8)

\* a seed stirred with the hardware divider register
PzSeedStirDivider(seed, joy, timer, div) == BitXor(seed, div, 8)

\* rand_seed ^= (uint8_t)(curr_input + game.drop_timer); the divider
\* register, which counts on its own, is not read
PzSeedStir(seed, joy, timer, div) == BitXor(seed, (joy + timer) % 256, 8)

\* values of the divider register at the time of a handler run
PzDividers == {0, 171}

\* game_handle_input() with the controller returning joy: the game, the
\* seed, the tile map and the two stored masks it leaves
PzHandled(g, seed, b, prev_in, curr_in, joy, div) ==
    LET prev == PzPrevStored(prev_in, curr_in)
        pressed == PzPressed(joy, prev)
    IN  IF Held(pressed, J_START) /\ g.game_over # 0
        THEN LET i == game_init(g, seed)
             IN  [g |-> i.g, seed |-> i.seed, b |-> i.b, prev |-> prev, curr |-> joy]
        ELSE IF g.game_over # 0
        THEN [g |-> g, seed |-> seed, b |-> b, prev |-> prev, curr |-> joy]
        ELSE LET g3 == PzRotate(PzMoveRight(PzMoveLeft(g, pressed), pressed), pressed)
             IN  [g |-> [g3 EXCEPT !.drop_speed = IF Held(joy, J_DOWN)
                                                  THEN DROP_SPEED_FAST
                                                  ELSE DROP_SPEED_NORMAL],
                  seed |-> PzSeedStir(seed, joy, g.drop_timer, div),
                  b |-> b, prev |-> prev, curr |-> joy]

\* game_handle_input()
PuzzleHandleInput ==
    /\ UNCHANGED PuzzleOthers
    /\ pz_pc = "input"
    /\ \E joy \in PuzzleInputs :
          \E h \in { PzHandled(pz_game, pz_rand_seed, pz_bkg, pz_prev_input,
                                pz_curr_input, joy, div) : div \in PzDividers } :
              /\ pz_prev_input' = h.prev
              /\ pz_curr_input' = h.curr
              /\ pz_joy' = joy
              /\ pz_reads' = pz_reads + 1
              /\ pz_game' = h.g
              /\ pz_rand_seed' = h.seed
              /\ pz_bkg' = h.b
    /\ pz_pc' = "update"
    /\ UNCHANGED << pz_frames, pz_curr_before, pz_lock >>

\* a timer test that lets the timer pass the interval by one frame
PzTimerDueLate(timer, speed) == timer > speed

\* if (game.drop_timer >= game.drop_speed)
PzTimerDue(timer, speed) == timer >= speed

\* game_update(): the game and the seed it leaves, and what it locked
PzUpdated(g, seed) ==
    LET t == (g.drop_timer + 1) % 256
    IN  IF g.game_over # 0
        THEN [g |-> g, seed |-> seed, lock |-> << >>]
        ELSE IF PzTimerDue(t, g.drop_speed)
        THEN IF can_place(g.grid, g.current.x, g.current.y + 1,
                          g.current.type, g.current.rotation) # 0
             THEN [g |-> [g EXCEPT !.drop_timer = 0,
                                   !.current.y = ToInt8(g.current.y + 1)],
                   seed |-> seed, lock |-> << >>]
             ELSE LET s == spawn_piece(check_lines(lock_piece([g EXCEPT !.drop_timer = 0])),
                                       seed)
                  IN  [g |-> s.g, seed |-> s.seed,
                       lock |-> [grid |-> g.grid, piece |-> g.current,
                                 score |-> g.score, lines |-> g.lines]]
        ELSE [g |-> [g EXCEPT !.drop_timer = t], seed |-> seed, lock |-> << >>]

\* game_update()
PuzzleUpdate ==
    /\ UNCHANGED PuzzleOthers
    /\ pz_pc = "update"
    /\ \E u \in { PzUpdated(pz_game, pz_rand_seed) } :
           /\ pz_game' = u.g
           /\ pz_rand_seed' = u.seed
           /\ pz_lock' = u.lock
    /\ pz_pc' = "vbl"
    /\ UNCHANGED << pz_frames, pz_prev_input, pz_curr_input, pz_bkg, pz_joy,
                    pz_curr_before, pz_reads >>

PuzzleNext ==
    \/ PuzzleWaitVbl
    \/ PuzzleRender
    \/ PuzzleHandleInput
    \/ PuzzleUpdate

\* game_update on its own
PuzzleLockNext == PuzzleUpdate

(***************************************************************************)
(* PLACEMENT CHECK                                                         *)
(***************************************************************************)
\* arguments around the playfield: columns and rows a few cells beyond each
\* edge, rows above the top included
PlacementArgs ==
    [px : -4..(GRID_WIDTH + 1), py : -4..GRID_HEIGHT,
     type : 0..(NUM_PIECES - 1), rotation : 0..3]

PlacementInit ==
    /\ cp_pc = "call"
    /\ cp_grid \in PuzzleGrids
    /\ cp_args \in PlacementArgs
    /\ cp_ret = 0

PlacementParked ==
    /\ cp_pc = "off"
    /\ cp_grid = << >>
    /\ cp_args = << >>
    /\ cp_ret = 0

\* can_place(px, py, type, rotation)
PlacementCall ==
    /\ UNCHANGED PlacementOthers
    /\ cp_pc = "call"
    /\ cp_ret' = can_place(cp_grid, cp_args.px, cp_args.py, cp_args.type, cp_args.rotation)
    /\ cp_pc' = "done"
    /\ UNCHANGED << cp_grid, cp_args >>

PlacementNext == PlacementCall

(***************************************************************************)
(* PUZZLE REPLAY: two runs, the same controller masks                      *)
(***************************************************************************)
\* one body of main's loop: game_render, game_handle_input, game_update
PzFrame(s, joy, div) ==
    LET h == PzHandled(PzRendered(s.game), s.seed, << >>, s.prev, s.curr, joy, div)
        u == PzUpdated(h.g, h.seed)
    IN  [game |-> u.g, seed |-> u.seed, prev |-> h.prev, curr |-> h.curr]

\* where a run may stand when the recording starts: at power-on, with a fresh
\* piece over a stack, or with a piece about to lock
ReplayStarts ==
    { [game |-> game_init(PzZeroGame, PZ_RAND_SEED_INIT).g,
       seed |-> game_init(PzZeroGame, PZ_RAND_SEED_INIT).seed, prev |-> 0, curr |-> 0] }
    \cup { [game |-> PzMidGame(grid, [type |-> type, rotation |-> 0, x |-> SPAWN_X,
                                      y |-> SPAWN_Y], PIECE_O, 0),
            seed |-> PzRand8(PzRand8(PZ_RAND_SEED_INIT)), prev |-> 0, curr |-> 0] :
           << grid, type >> \in
               { gt \in PuzzleGrids \X (0..(NUM_PIECES - 1)) :
                   can_place(gt[1], SPAWN_X, SPAWN_Y, gt[2], 0) = 1 } }
    \cup { [game |-> PzMidGame(s[1], s[2], s[3], DROP_SPEED_NORMAL - 1),
            seed |-> PzRand8(PzRand8(PZ_RAND_SEED_INIT)), prev |-> 0, curr |-> 0] :
           s \in PuzzleEventfulStarts }

\* both runs start in the same state, with the same seed
ReplayInit ==
    /\ rp_pc = "run"
    /\ rp_frames = 0
    /\ rp_a \in ReplayStarts
    /\ rp_b = rp_a

ReplayParked ==
    /\ rp_pc = "off"
    /\ rp_frames = 0
    /\ rp_a = << >>
    /\ rp_b = << >>

\* one frame of both runs: the controller returns the same mask to both,
\* the divider register stands wherever it stands in each
ReplayFrame ==
    /\ UNCHANGED ReplayOthers
    /\ rp_pc = "run"
    /\ rp_frames < MaxReplayFrames
    /\ \E joy \in PuzzleInputs, da \in PzDividers, db \in PzDividers :
          /\ rp_a' = PzFrame(rp_a, joy, da)
          /\ rp_b' = PzFrame(rp_b, joy, db)
    /\ rp_frames' = rp_frames + 1
    /\ UNCHANGED rp_pc

ReplayNext == ReplayFrame

(***************************************************************************)
(* THE GENERATOR ON ITS OWN                                                *)
(***************************************************************************)
\* game.seed = 12345; in the maze's game_init
MAZE_SEED_INIT == 12345

\* calls made in a row
MaxRandomCalls == 3

\* states a first call may find: the two initial seeds, the extremes, the
\* low values and values with the top bit set
RandomSeeds == {FS_SEED_INIT, MAZE_SEED_INIT, 65535} \cup 0..63 \cup 32768..32831

RandomInit ==
    /\ rn_pc = "call"
    /\ rn_calls = 0
    /\ rn_state \in RandomSeeds
    /\ rn_before = rn_state
    /\ rn_ret = 0

RandomParked ==
    /\ rn_pc = "off"
    /\ rn_calls = 0
    /\ rn_state = 0
    /\ rn_before = 0
    /\ rn_ret = 0

\* random()
RandomCall ==
    /\ UNCHANGED RandomOthers
    /\ rn_pc = "call"
    /\ rn_calls < MaxRandomCalls
    /\ rn_before' = rn_state
    /\ rn_state' = RandomSeed(rn_state)
    /\ rn_ret' = RandomValue(rn_state)
    /\ rn_calls' = rn_calls + 1
    /\ UNCHANGED rn_pc

RandomNext == RandomCall

(***************************************************************************)
(* THE GENERATORS OF THE GAMES, IN PAIRS                                   *)
(***************************************************************************)
\* static uint16_t rand_seed = 12345; in the timer
TIMER_SEED_INIT == 12345

\* static uint16_t rng_state = 12345; in snake
SNAKE_SEED_INIT == 12345

\* calls, or handler runs, made in a row
MaxGenSteps == 2

GenGames == {"puzzle", "timer", "fishing", "snake"}

\* the timer's rand16(): three shifts and exclusive-ors on 16 bits
rand16(seed) ==
    LET s1 == BitXor(seed, (seed * 128) % 65536, 16)
        s2 == BitXor(s1, s1 \div 512, 16)
    IN  BitXor(s2, (s2 * 256) % 65536, 16)

\* snake's random_byte(): rng_state = rng_state * 13 + 101 + frame_count,
\* and the high byte of the new state is returned
random_byte(state, frame_count) ==
    LET next == (state * 13 + 101 + frame_count) % 65536
    IN  [state |-> next, ret |-> next \div 256]

\* one call of a game's generator, made while frame_count holds `frame'
GenCalled(game, state, frame) ==
    CASE game = "puzzle"  -> [state |-> PzRand8(state), ret |-> PzRand8(state)]
      [] game = "timer"   -> [state |-> rand16(state), ret |-> rand16(state)]
      [] game = "fishing" -> [state |-> RandomSeed(state),
                              ret |-> RandomValue(state)]
      [] game = "snake"   -> random_byte(state, frame)

\* the states a first call may find, per game
GenSeeds(game) ==
    CASE game = "puzzle"  -> 0..255
      [] game = "timer"   -> {TIMER_SEED_INIT, 65535} \cup 0..15
      [] game = "fishing" -> {FS_SEED_INIT, 65535} \cup 0..15
      [] game = "snake"   -> {SNAKE_SEED_INIT, 65535} \cup 0..15

\* values of snake's frame_count (a uint8_t that game_update increments)
GenFrameCounts == {0, 1, 200, 255}

\* two generators of one game, seeded alike, nothing called yet
GenPairSeeded ==
    /\ gn_game \in GenGames
    /\ gn_steps = 0
    /\ \E seed \in GenSeeds(gn_game) :
          /\ gn_a = [state |-> seed, out |-> << >>]
          /\ gn_b = gn_a

GeneratorsInit ==
    /\ gn_pc = "call"
    /\ GenPairSeeded

SeedWritesInit ==
    /\ gn_pc = "frame"
    /\ GenPairSeeded

GeneratorsParked ==
    /\ gn_pc = "off"
    /\ gn_game = ""
    /\ gn_steps = 0
    /\ gn_a = [state |-> 0, out |-> << >>]
    /\ gn_b = gn_a

\* both generators are called once, each in its own run of the game, so
\* each at whatever frame its run has reached
GeneratorsCall ==
    /\ UNCHANGED GeneratorsOthers
    /\ gn_pc = "call"
    /\ gn_steps < MaxGenSteps
    /\ \E fa \in GenFrameCounts, fb \in GenFrameCounts :
          LET ca == GenCalled(gn_game, gn_a.state, fa)
              cb == GenCalled(gn_game, gn_b.state, fb)
          IN  /\ gn_a' = [state |-> ca.state, out |-> Append(gn_a.out, ca.ret)]
              /\ gn_b' = [state |-> cb.state, out |-> Append(gn_b.out, cb.ret)]
    /\ gn_steps' = gn_steps + 1
    /\ UNCHANGED << gn_pc, gn_game >>

GeneratorsNext == GeneratorsCall

\* what a frame handler reads besides the controller when it writes the
\* generator's state: the timer's interrupt tick counter timer_ticks, the
\* puzzle's game.drop_timer; nothing in fishing and snake
GenOtherData(game) ==
    CASE game = "timer"  -> {0, 1, 2, 1000}
      [] game = "puzzle" -> {0, 1, 29}
      [] OTHER           -> {0}

\* the controller masks of a frame
GenMasks == {0, J_A, J_LEFT, J_START}

\* the generator's state after the statements of one frame that write it
\* outside a call:
\*   timer, game_handle_input:    if (curr_input) rand_seed ^= timer_ticks;
\*   puzzle, game_handle_input:   rand_seed ^= (uint8_t)(curr_input + game.drop_timer);
\*   fishing, game_update:        game.seed++;
\*   snake, game_handle_input:    rng_state += curr_input;
GenStirred(game, state, joy, other) ==
    CASE game = "timer"   -> IF joy # 0 THEN BitXor(state, other, 16) ELSE state
      [] game = "puzzle"  -> PzSeedStir(state, joy, other, 0)
      [] game = "fishing" -> (state + 1) % 65536
      [] game = "snake"   -> (state + joy) % 65536

\* one frame of both runs: the same controller mask on the same frame, and
\* whatever else each run's handler reads
GeneratorsFrame ==
    /\ UNCHANGED GeneratorsOthers
    /\ gn_pc = "frame"
    /\ gn_steps < MaxGenSteps
    /\ \E joy \in GenMasks :
          \E oa \in GenOtherData(gn_game), ob \in GenOtherData(gn_game) :
              /\ gn_a' = [gn_a EXCEPT !.state = GenStirred(gn_game, @, joy, oa)]
              /\ gn_b' = [gn_b EXCEPT !.state = GenStirred(gn_game, @, joy, ob)]
    /\ gn_steps' = gn_steps + 1
    /\ UNCHANGED << gn_pc, gn_game >>

SeedWritesNext == GeneratorsFrame

(***************************************************************************)

(* THE PARALLAX DEMO                                                       *)
(***************************************************************************)
MOUNTAIN_START == 32
HILLS_START == 64
GROUND_START == 96
SCREEN_END == 144

PX_TILE_SKY == 0
PX_TILE_MOUNTAIN == 1
PX_TILE_HILLS == 2
PX_TILE_GRASS == 3
PX_TILE_GROUND == 4
PX_TILE_ROCK == 5
PX_TILE_TREE == 6

\* the sprite table of the display
PX_SPRITES == 40

\* frames displayed
MaxParallaxFrames == 2

\* the controller masks fed to the demo
ParallaxInputs == {0, J_LEFT, J_A}

\* int16_t arithmetic: the value of a sum kept in 16 bits, two's complement
ToInt16(n) ==
    LET m == n % 65536
    IN  IF m >= 32768 THEN m - 65536 ELSE m

\* setup_background(): the tile of map cell (x, y), rows 0..17
PxBackgroundTile(x, y) ==
    IF y < 4 THEN PX_TILE_SKY
    ELSE IF y < 8 THEN
        IF y >= 7 - ((x * 3) % 4) THEN PX_TILE_MOUNTAIN ELSE PX_TILE_SKY
    ELSE IF y < 12 THEN
        IF y >= 11 - ((x * 5 + 2) % 3) THEN PX_TILE_HILLS ELSE PX_TILE_SKY
    ELSE IF y = 12 THEN
        IF x % 5 = 0 THEN PX_TILE_TREE ELSE PX_TILE_GRASS
    ELSE IF y = 13 THEN
        IF (x + 3) % 7 = 0 THEN PX_TILE_ROCK ELSE PX_TILE_GROUND
    ELSE
        IF x % 11 = y % 11 THEN PX_TILE_ROCK ELSE PX_TILE_GROUND

setup_background ==
    [c \in (0..31) \X (0..17) |-> PxBackgroundTile(c[1], c[2])]

\* video memory after sprites_init() and game_init(): the map drawn, no
\* sprite placed, the seven tiles loaded
PxVideoMemory ==
    [bkg   |-> setup_background,
     oam   |-> [i \in 0..(PX_SPRITES - 1) |-> [x |-> 0, y |-> 0]],
     tiles |-> [t \in PX_TILE_SKY..PX_TILE_TREE |-> t]]

\* the layer values game_update() computes from the master scroll_x
PxLayersOf(scroll_x) ==
    [scroll_ground   |-> scroll_x % 256,
     scroll_hills    |-> (scroll_x \div 2) % 256,
     scroll_mountain |-> (scroll_x \div 4) % 256,
     scroll_sky      |-> 0]

\* the GameState after game_update() has run with the master scroll at x
PxGameAt(x) ==
    [scroll_x |-> x, moving |-> 0, direction |-> 1, fast_mode |-> 0]
        @@ PxLayersOf(x)

\* master scroll positions the demo starts a checked run from: the one
\* game_init() sets, and one reached by scrolling
PxScrollStarts == {0, 40}

\* a handler that arms the same boundary again after the mountain layer
LcdIsrSameBoundary(m) ==
    LET r == m.regs
        w == CASE r.current_layer = 0 ->
                    [SCX_REG |-> m.layer.mountain.v, LYC_REG |-> MOUNTAIN_START,
                     current_layer |-> 1]
               [] r.current_layer = 1 ->
                    [SCX_REG |-> m.layer.hills.v, LYC_REG |-> GROUND_START,
                     current_layer |-> 2]
               [] r.current_layer = 2 ->
                    [SCX_REG |-> m.layer.ground.v, LYC_REG |-> MOUNTAIN_START,
                     current_layer |-> 0]
               [] OTHER -> r
    IN  [m EXCEPT !.regs = w]

\* a handler that also redraws a cell of the background map
(* lcd_isr(): by current_layer, apply the next layer's scroll, arm the     *)
(* compare register for the following boundary, advance current_layer.     *)
(* The argument is everything the handler can reach: the registers, the    *)
(* volatile copies, the game state and video memory.                       *)
LcdIsrDrawsHorizon(m) ==
    LET r == m.regs
        w == CASE r.current_layer = 0 ->
                    [SCX_REG |-> m.layer.mountain.v, LYC_REG |-> HILLS_START,
                     current_layer |-> 1]
               [] r.current_layer = 1 ->
                    [SCX_REG |-> m.layer.hills.v, LYC_REG |-> GROUND_START,
                     current_layer |-> 2]
               [] r.current_layer = 2 ->
                    [SCX_REG |-> m.layer.ground.v, LYC_REG |-> MOUNTAIN_START,
                     current_layer |-> 0]
               [] OTHER -> r
    IN  [m EXCEPT !.regs = w,
                  !.vram.bkg[<<0, 4>>] = PX_TILE_MOUNTAIN]

lcd_isr(m) ==
    LET r == m.regs
        w == CASE r.current_layer = 0 ->
                    [SCX_REG |-> m.layer.mountain.v, LYC_REG |-> HILLS_START,
                     current_layer |-> 1]
               [] r.current_layer = 1 ->
                    [SCX_REG |-> m.layer.hills.v, LYC_REG |-> GROUND_START,
                     current_layer |-> 2]
               [] r.current_layer = 2 ->
                    [SCX_REG |-> m.layer.ground.v, LYC_REG |-> MOUNTAIN_START,
                     current_layer |-> 0]
               [] OTHER -> r
    IN  [m EXCEPT !.regs = w]

\* the volatile copy the handler reads when current_layer is k
PxLayerRead(layer, k) ==
    CASE k = 0 -> layer.mountain
      [] k = 1 -> layer.hills
      [] k = 2 -> layer.ground
      [] OTHER -> [v |-> 0, from |-> 0]

PxCopiesOf(g) ==
    [mountain |-> [v |-> g.scroll_mountain, from |-> g.scroll_x],
     hills    |-> [v |-> g.scroll_hills, from |-> g.scroll_x],
     ground   |-> [v |-> g.scroll_ground, from |-> g.scroll_x]]

(* The demo as the first vertical blank after a displayed frame begins:    *)
(* wait_vbl_done() has just returned, the handler's last run of the frame  *)
(* left the ground scroll in SCX_REG and rearmed the first boundary.       *)
ParallaxInit ==
    /\ px_pc = "render"
    /\ px_frames = 0
    /\ px_LY = SCREEN_END
    /\ px_irq = FALSE
    /\ \E x \in PxScrollStarts :
          /\ px_game = PxGameAt(x)
          /\ px_layer = PxCopiesOf(px_game)
          /\ px_regs = [SCX_REG |-> px_game.scroll_ground,
                        LYC_REG |-> MOUNTAIN_START, current_layer |-> 0]
    /\ px_input = [prev |-> 0, curr |-> 0]
    /\ px_vram = PxVideoMemory
    /\ px_shown = << >>
    /\ px_fired = << >>

ParallaxParked ==
    /\ px_pc = "off"
    /\ px_frames = 0
    /\ px_LY = 0
    /\ px_irq = FALSE
    /\ px_regs = << >>
    /\ px_layer = << >>
    /\ px_game = << >>
    /\ px_input = << >>
    /\ px_vram = << >>
    /\ px_shown = << >>
    /\ px_fired = << >>

(* The display moves on by one line. A line of the picture is displayed    *)
(* with the scroll then in SCX_REG; the compare interrupt is raised when   *)
(* the new line equals LYC_REG; the vertical blank after line 143 wakes    *)
(* wait_vbl_done(). The loop body runs within one frame, and game_render,  *)
(* which follows the wake-up at once, within the vertical blank.           *)
ParallaxScanline ==
    /\ UNCHANGED ParallaxOthers
    /\ px_pc # "off"
    /\ ~px_irq
    /\ LET next == IF px_LY = SCREEN_END THEN 0 ELSE px_LY + 1
       IN  /\ next = SCREEN_END => px_pc = "wait"
           /\ px_LY = SCREEN_END =>
                 (px_pc # "render" /\ px_frames < MaxParallaxFrames)
           /\ px_LY' = next
           /\ px_irq' = (next = px_regs.LYC_REG)
           /\ px_pc' = IF next = SCREEN_END THEN "render" ELSE px_pc
           /\ px_frames' = IF next = SCREEN_END THEN px_frames + 1 ELSE px_frames
           /\ px_shown' = IF px_LY = SCREEN_END THEN << >>
                          ELSE Append(px_shown, px_regs.SCX_REG)
           /\ px_fired' = IF px_LY = SCREEN_END THEN << >> ELSE px_fired
    /\ UNCHANGED << px_regs, px_layer, px_game, px_input, px_vram >>

\* the pending scanline interrupt is served: lcd_isr() runs
ParallaxLcdIsr ==
    /\ UNCHANGED ParallaxOthers
    /\ px_irq
    /\ \E m \in { lcd_isr([regs |-> px_regs, layer |-> px_layer, game |-> px_game,
                           input |-> px_input, vram |-> px_vram]) } :
          /\ px_regs' = m.regs
          /\ px_layer' = m.layer
          /\ px_game' = m.game
          /\ px_input' = m.input
          /\ px_vram' = m.vram
    /\ px_fired' = Append(px_fired,
                          [line |-> px_LY, layer |-> px_regs.current_layer,
                           read |-> PxLayerRead(px_layer, px_regs.current_layer)])
    /\ px_irq' = FALSE
    /\ UNCHANGED << px_pc, px_frames, px_LY, px_shown >>

\* game_render(): the sky scroll, and the handler reset for the new frame
ParallaxRender ==
    /\ UNCHANGED ParallaxOthers
    /\ px_pc = "render"
    /\ ~px_irq
    /\ px_regs' = [SCX_REG |-> px_game.scroll_sky, LYC_REG |-> MOUNTAIN_START,
                   current_layer |-> 0]
    /\ px_pc' = "input"
    /\ UNCHANGED << px_frames, px_LY, px_irq, px_layer, px_game, px_input,
                    px_vram, px_shown, px_fired >>

\* game_handle_input()
PxHandled(g, joy) ==
    LET g1 == [g EXCEPT !.direction = 1, !.fast_mode = 0]
        g2 == IF Held(joy, J_LEFT)
              THEN [g1 EXCEPT !.direction = -1, !.fast_mode = 1] ELSE g1
        g3 == IF Held(joy, J_RIGHT)
              THEN [g2 EXCEPT !.direction = 1, !.fast_mode = 1] ELSE g2
    IN  IF Held(joy, J_A) THEN [g3 EXCEPT !.direction = 0] ELSE g3

ParallaxHandleInput ==
    /\ UNCHANGED ParallaxOthers
    /\ px_pc = "input"
    /\ ~px_irq
    /\ \E joy \in ParallaxInputs :
          /\ px_input' = [prev |-> px_input.curr, curr |-> joy]
          /\ px_game' = PxHandled(px_game, joy)
    /\ px_pc' = "update"
    /\ UNCHANGED << px_frames, px_LY, px_irq, px_regs, px_layer, px_vram,
                    px_shown, px_fired >>

\* game_update() up to the volatile copies: the master scroll moves and
\* the four layer values are computed from it
PxUpdated(g) ==
    LET speed == IF g.fast_mode # 0 THEN 3 ELSE 1
        x == IF g.direction # 0
             THEN ToInt16(g.scroll_x + speed * g.direction) ELSE g.scroll_x
    IN  [scroll_x |-> x, moving |-> g.moving, direction |-> g.direction,
         fast_mode |-> g.fast_mode] @@ PxLayersOf(x)

ParallaxUpdate ==
    /\ UNCHANGED ParallaxOthers
    /\ px_pc = "update"
    /\ ~px_irq
    /\ px_game' = PxUpdated(px_game)
    /\ px_pc' = "store_mountain"
    /\ UNCHANGED << px_frames, px_LY, px_irq, px_regs, px_layer, px_input,
                    px_vram, px_shown, px_fired >>

\* game_update(), its last three statements, one store each:
\*   layer_scroll_mountain = game.scroll_mountain;
\*   layer_scroll_hills = game.scroll_hills;
\*   layer_scroll_ground = game.scroll_ground;
ParallaxStore ==
    /\ UNCHANGED ParallaxOthers
    /\ ~px_irq
    /\ \/ /\ px_pc = "store_mountain"
          /\ px_layer' = [px_layer EXCEPT !.mountain = PxCopiesOf(px_game).mountain]
          /\ px_pc' = "store_hills"
       \/ /\ px_pc = "store_hills"
          /\ px_layer' = [px_layer EXCEPT !.hills = PxCopiesOf(px_game).hills]
          /\ px_pc' = "store_ground"
       \/ /\ px_pc = "store_ground"
          /\ px_layer' = [px_layer EXCEPT !.ground = PxCopiesOf(px_game).ground]
          /\ px_pc' = "wait"
    /\ UNCHANGED << px_frames, px_LY, px_irq, px_regs, px_game, px_input,
                    px_vram, px_shown, px_fired >>

ParallaxNext ==
    \/ ParallaxScanline
    \/ ParallaxLcdIsr
    \/ ParallaxRender
    \/ ParallaxHandleInput
    \/ ParallaxUpdate
    \/ ParallaxStore

(***************************************************************************)

(* THE PLATFORMER                                                          *)
(***************************************************************************)
PF_SCREEN_WIDTH == 160
PF_SCREEN_HEIGHT == 144
PF_SPRITE_X_OFFSET == 8
PF_SPRITE_Y_OFFSET == 16
PF_PLAYER_WIDTH == 8
PF_PLAYER_HEIGHT == 8
PF_PLAYER_START_X == 20
PF_PLAYER_START_Y == 120
PF_PLAYER_SPEED == 2
GRAVITY == 1
JUMP_VELOCITY == -6
TERMINAL_VELOCITY == 4
MAX_JUMP_HOLD == 10
MIN_X == 0
MAX_X == PF_SCREEN_WIDTH - PF_PLAYER_WIDTH
MIN_Y == 0
MAX_Y == PF_SCREEN_HEIGHT - PF_PLAYER_HEIGHT
PF_TILE_EMPTY == 0
PF_TILE_PLATFORM == 1

\* loop bodies run
MaxPlatformerFrames == 4

\* the controller masks fed to the platformer
PlatformerInputs ==
    {0, J_LEFT, J_RIGHT, J_A, J_A + J_LEFT, J_A + J_RIGHT, J_START}

\* level_map[18][20]: row tile_y + 1, column tile_x + 1
level_map ==
    << <<0,0,0,0,0,0,0,0,0,0,0,0,0,0,0,0,0,0,0,0>>,
       <<0,0,0,0,0,0,0,0,0,0,0,0,0,0,0,0,0,0,0,0>>,
       <<0,0,0,0,0,0,0,0,0,0,0,0,0,0,1,1,1,1,0,0>>,
       <<0,0,0,0,0,0,0,0,0,0,0,0,0,0,0,0,0,0,0,0>>,
       <<0,0,0,0,0,0,0,0,0,0,0,0,0,0,0,0,0,0,0,0>>,
       <<0,0,1,1,1,1,0,0,0,0,0,0,0,0,0,0,0,0,0,0>>,
       <<0,0,0,0,0,0,0,0,0,0,0,0,0,0,0,0,0,0,0,0>>,
       <<0,0,0,0,0,0,0,0,0,0,1,1,1,1,0,0,0,0,0,0>>,
       <<0,0,0,0,0,0,0,0,0,0,0,0,0,0,0,0,0,0,0,0>>,
       <<0,0,0,0,0,0,0,0,0,0,0,0,0,0,0,0,0,0,0,0>>,
       <<0,0,0,0,0,1,1,1,1,0,0,0,0,0,0,0,0,0,0,0>>,
       <<0,0,0,0,0,0,0,0,0,0,0,0,0,0,0,0,0,0,0,0>>,
       <<0,0,0,0,0,0,0,0,0,0,0,0,0,1,1,1,1,1,0,0>>,
       <<0,0,0,0,0,0,0,0,0,0,0,0,0,0,0,0,0,0,0,0>>,
       <<0,0,1,1,1,0,0,0,0,0,0,0,0,0,0,0,0,0,0,0>>,
       <<0,0,0,0,0,0,0,0,0,1,1,1,0,0,0,0,0,0,0,0>>,
       <<0,0,0,0,0,0,0,0,0,0,0,0,0,0,0,0,0,0,0,0>>,
       <<1,1,1,1,1,1,1,1,1,1,1,1,1,1,1,1,1,1,1,1>> >>

\* draw_level(): the background map of the level
draw_level ==
    [c \in (0..19) \X (0..17) |->
        IF level_map[c[2] + 1][c[1] + 1] = 1 THEN PF_TILE_PLATFORM
        ELSE PF_TILE_EMPTY]

\* `n >> 3' stored in a uint8_t
PfTileOf(n) == (n \div 8) % 256

\* is_solid(tile_x, tile_y): out of bounds is not solid
is_solid(tile_x, tile_y) ==
    IF tile_x >= 20 \/ tile_y >= 18 THEN FALSE
    ELSE level_map[tile_y + 1][tile_x + 1] = 1

\* check_ground(px, py): the tile row under the feet, at both corners
check_ground(px, py) ==
    LET tile_y == PfTileOf(py + PF_PLAYER_HEIGHT)
    IN  \/ is_solid(PfTileOf(px), tile_y)
        \/ is_solid(PfTileOf(px + PF_PLAYER_WIDTH - 1), tile_y)

\* check_horizontal(px, py): the column of px, at the top and bottom rows
check_horizontal(px, py) ==
    \/ is_solid(PfTileOf(px), PfTileOf(py))
    \/ is_solid(PfTileOf(px), PfTileOf(py + PF_PLAYER_HEIGHT - 1))

\* check_ceiling(px, py): the tile row of the head, at both corners
check_ceiling(px, py) ==
    \/ is_solid(PfTileOf(px), PfTileOf(py))
    \/ is_solid(PfTileOf(px + PF_PLAYER_WIDTH - 1), PfTileOf(py))

\* game_init(): the GameState it sets
PfGameInit ==
    [player_x |-> PF_PLAYER_START_X, player_y |-> PF_PLAYER_START_Y,
     velocity_y |-> 0, on_ground |-> 0, jumping |-> 0, jump_held |-> 0,
     jump_timer |-> 0]

\* a GameState, written field by field
PfState(x, y, v, ground, jumping, held, timer) ==
    [player_x |-> x, player_y |-> y, velocity_y |-> v, on_ground |-> ground,
     jumping |-> jumping, jump_held |-> held, jump_timer |-> timer]

(* The moments a checked run starts from, each at the top of the loop body *)
(* and each reached from game_init() by play: the start itself; the third  *)
(* frame of the first fall; a fall onto the platform of row 14; a stand at *)
(* that platform's right edge; a stand on the ground under the platform of *)
(* row 15; a held jump still rising.                                       *)
PlatformerStarts ==
    { [game |-> PfGameInit, input |-> [prev |-> 0, curr |-> 0],
       start |-> PfGameInit, landed |-> 0, sprite |-> [x |-> 0, y |-> 0]],
      [game |-> PfState(20, 126, 3, 0, 0, 0, 0),
       input |-> [prev |-> 0, curr |-> 0],
       start |-> PfState(20, 123, 2, 0, 0, 0, 0), landed |-> 0,
       sprite |-> [x |-> 28, y |-> 139]],
      [game |-> PfState(16, 101, 2, 0, 1, 0, 5),
       input |-> [prev |-> J_RIGHT, curr |-> J_RIGHT],
       start |-> PfState(14, 99, 1, 0, 1, 0, 5), landed |-> 0,
       sprite |-> [x |-> 22, y |-> 115]],
      [game |-> PfState(38, 104, 0, 1, 0, 0, 3),
       input |-> [prev |-> 0, curr |-> J_LEFT],
       start |-> PfState(40, 103, 1, 0, 1, 0, 3), landed |-> 1,
       sprite |-> [x |-> 48, y |-> 119]],
      [game |-> PfState(80, 128, 0, 1, 0, 0, 0),
       input |-> [prev |-> J_RIGHT, curr |-> J_RIGHT],
       start |-> PfState(78, 128, 0, 1, 0, 0, 0), landed |-> 1,
       sprite |-> [x |-> 86, y |-> 144]],
      [game |-> PfState(8, 96, -2, 0, 1, 1, 8),
       input |-> [prev |-> J_A, curr |-> J_A],
       start |-> PfState(8, 98, -3, 0, 1, 1, 7), landed |-> 0,
       sprite |-> [x |-> 16, y |-> 114]] }

PlatformerInit ==
    /\ pf_pc = "render"
    /\ pf_frames = 0
    /\ \E s \in PlatformerStarts :
          /\ pf_game = s.game
          /\ pf_input = s.input
          /\ pf_start = s.start
          /\ pf_landed = s.landed
          /\ pf_sprite = s.sprite
    /\ pf_bkg = draw_level

(* More moments reached from game_init() by play, each one frame before a  *)
(* tile or a screen edge is in the way: a jump from the ground rising      *)
(* under the platform of row 14; a jump beside that platform's left end    *)
(* and beside its right end; a stand two pixels from the left edge of the  *)
(* screen and two pixels from the right edge.                              *)
PlatformerBoxStarts ==
    { [game |-> PfState(20, 122, -6, 0, 1, 1, 1),
       input |-> [prev |-> 0, curr |-> J_A],
       start |-> PfState(20, 128, 0, 1, 0, 0, 0), landed |-> 0,
       sprite |-> [x |-> 28, y |-> 144]],
      [game |-> PfState(8, 117, -5, 0, 1, 0, 1),
       input |-> [prev |-> J_A + J_LEFT, curr |-> J_LEFT],
       start |-> PfState(10, 122, -6, 0, 1, 1, 1), landed |-> 0,
       sprite |-> [x |-> 18, y |-> 138]],
      [game |-> PfState(40, 117, -5, 0, 1, 0, 1),
       input |-> [prev |-> J_A + J_RIGHT, curr |-> J_RIGHT],
       start |-> PfState(38, 122, -6, 0, 1, 1, 1), landed |-> 0,
       sprite |-> [x |-> 46, y |-> 138]],
      [game |-> PfState(2, 128, 0, 1, 0, 0, 0),
       input |-> [prev |-> J_LEFT, curr |-> J_LEFT],
       start |-> PfState(4, 128, 0, 1, 0, 0, 0), landed |-> 1,
       sprite |-> [x |-> 12, y |-> 144]],
      [game |-> PfState(150, 128, 0, 1, 0, 0, 0),
       input |-> [prev |-> J_RIGHT, curr |-> J_RIGHT],
       start |-> PfState(148, 128, 0, 1, 0, 0, 0), landed |-> 1,
       sprite |-> [x |-> 156, y |-> 144]] }

PlatformerBoxInit ==
    /\ pf_pc = "render"
    /\ pf_frames = 0
    /\ \E s \in PlatformerStarts \cup PlatformerBoxStarts :
          /\ pf_game = s.game
          /\ pf_input = s.input
          /\ pf_start = s.start
          /\ pf_landed = s.landed
          /\ pf_sprite = s.sprite
    /\ pf_bkg = draw_level

PlatformerParked ==
    /\ pf_pc = "off"
    /\ pf_frames = 0
    /\ pf_game = << >>
    /\ pf_input = << >>
    /\ pf_sprite = << >>
    /\ pf_bkg = << >>
    /\ pf_start = << >>
    /\ pf_landed = 0

\* game_render(): the player's sprite is moved to the player's position
PlatformerRender ==
    /\ UNCHANGED PlatformerOthers
    /\ pf_pc = "render"
    /\ pf_frames < MaxPlatformerFrames
    /\ pf_sprite' = [x |-> (pf_game.player_x + PF_SPRITE_X_OFFSET) % 256,
                     y |-> ((pf_game.player_y % 256) + PF_SPRITE_Y_OFFSET) % 256]
    /\ pf_pc' = "input"
    /\ UNCHANGED << pf_frames, pf_game, pf_input, pf_bkg, pf_start, pf_landed >>

\* a walk that no tile stops
PfWalkedThrough(g, curr) ==
    LET gl == IF Held(curr, J_LEFT)
              THEN IF g.player_x > MIN_X + PF_PLAYER_SPEED
                   THEN [g EXCEPT !.player_x = @ - PF_PLAYER_SPEED]
                   ELSE [g EXCEPT !.player_x = MIN_X]
              ELSE g
    IN  IF Held(curr, J_RIGHT)
        THEN IF gl.player_x < MAX_X - PF_PLAYER_SPEED
             THEN [gl EXCEPT !.player_x = @ + PF_PLAYER_SPEED]
             ELSE [gl EXCEPT !.player_x = MAX_X]
        ELSE gl

\* game_handle_input(), the horizontal movement
PfWalked(g, curr) ==
    LET gl == IF Held(curr, J_LEFT)
              THEN IF g.player_x > MIN_X + PF_PLAYER_SPEED
                   THEN IF ~check_horizontal(g.player_x - PF_PLAYER_SPEED, g.player_y)
                        THEN [g EXCEPT !.player_x = @ - PF_PLAYER_SPEED]
                        ELSE g
                   ELSE [g EXCEPT !.player_x = MIN_X]
              ELSE g
    IN  IF Held(curr, J_RIGHT)
        THEN IF gl.player_x < MAX_X - PF_PLAYER_SPEED
             THEN IF ~check_horizontal(
                         (gl.player_x + PF_PLAYER_SPEED + PF_PLAYER_WIDTH) % 256,
                         gl.player_y)
                  THEN [gl EXCEPT !.player_x = @ + PF_PLAYER_SPEED]
                  ELSE gl
             ELSE [gl EXCEPT !.player_x = MAX_X]
        ELSE gl

\* a jump that starts whenever A is down on the ground
PfJumpedOnHold(g, prev, curr) ==
    LET g1 == IF Held(curr, J_A) /\ g.on_ground # 0
              THEN [g EXCEPT !.velocity_y = JUMP_VELOCITY, !.on_ground = 0,
                             !.jumping = 1, !.jump_held = 1, !.jump_timer = 0]
              ELSE g
    IN  IF g1.jumping # 0
        THEN IF Held(curr, J_A)
             THEN IF g1.jump_timer < MAX_JUMP_HOLD
                  THEN [g1 EXCEPT !.jump_timer = @ + 1] ELSE g1
             ELSE [g1 EXCEPT !.jump_held = 0]
        ELSE g1

\* game_handle_input(), the jump: started by a fresh press of A on the
\* ground, then the hold of A tracked while the jump lasts
PfJumped(g, prev, curr) ==
    LET g1 == IF Held(curr, J_A) /\ ~Held(prev, J_A) /\ g.on_ground # 0
              THEN [g EXCEPT !.velocity_y = JUMP_VELOCITY, !.on_ground = 0,
                             !.jumping = 1, !.jump_held = 1, !.jump_timer = 0]
              ELSE g
    IN  IF g1.jumping # 0
        THEN IF Held(curr, J_A)
             THEN IF g1.jump_timer < MAX_JUMP_HOLD
                  THEN [g1 EXCEPT !.jump_timer = @ + 1] ELSE g1
             ELSE [g1 EXCEPT !.jump_held = 0]
        ELSE g1

\* game_handle_input(): a fresh press of START restarts and returns
PfHandled(g, prev, curr) ==
    IF Held(curr, J_START) /\ ~Held(prev, J_START)
    THEN PfGameInit
    ELSE PfJumped(PfWalked(g, curr), prev, curr)

PlatformerHandleInput ==
    /\ UNCHANGED PlatformerOthers
    /\ pf_pc = "input"
    /\ \E joy \in PlatformerInputs :
          /\ pf_input' = [prev |-> pf_input.curr, curr |-> joy]
          /\ pf_game' = PfHandled(pf_game, pf_input.curr, joy)
    /\ pf_start' = pf_game
    /\ pf_bkg' = draw_level
    /\ pf_pc' = "update"
    /\ UNCHANGED << pf_frames, pf_sprite, pf_landed >>

\* game_update(), gravity: every other frame while a held jump still
\* rises, every frame otherwise; then the clamp to terminal velocity
PfGravity(g) ==
    LET v == IF /\ g.jumping # 0 /\ g.jump_held # 0 /\ g.velocity_y < 0
                /\ g.jump_timer < MAX_JUMP_HOLD
             THEN IF g.jump_timer % 2 = 0 THEN ToInt8(g.velocity_y + GRAVITY)
                  ELSE g.velocity_y
             ELSE ToInt8(g.velocity_y + GRAVITY)
    IN  IF v > TERMINAL_VELOCITY THEN TERMINAL_VELOCITY ELSE v

\* game_update(), the rising branch: stopped under a ceiling tile or moved
PfRise(g, new_y) ==
    IF check_ceiling(g.player_x, new_y)
    THEN [g EXCEPT !.player_y = (PfTileOf(new_y) + 1) * 8,
                   !.velocity_y = 0, !.jump_held = 0]
    ELSE [g EXCEPT !.player_y = new_y]

\* a landing that leaves the player where the move took it
PfFallNoSnap(g, new_y) ==
    IF check_ground(g.player_x, new_y)
    THEN [g EXCEPT !.player_y = new_y,
                   !.velocity_y = 0, !.on_ground = 1, !.jumping = 0,
                   !.jump_held = 0]
    ELSE [g EXCEPT !.player_y = new_y, !.on_ground = 0]

\* game_update(), the falling branch: landed on a solid tile, snapped to
\* its top, or moved and in the air
PfFall(g, new_y) ==
    IF check_ground(g.player_x, new_y)
    THEN [g EXCEPT !.player_y = PfTileOf(new_y + PF_PLAYER_HEIGHT) * 8
                                    - PF_PLAYER_HEIGHT,
                   !.velocity_y = 0, !.on_ground = 1, !.jumping = 0,
                   !.jump_held = 0]
    ELSE [g EXCEPT !.player_y = new_y, !.on_ground = 0]

\* game_update(), the clamp to the screen
PfClamped(g) ==
    LET g1 == IF g.player_y < MIN_Y
              THEN [g EXCEPT !.player_y = MIN_Y, !.velocity_y = 0] ELSE g
    IN  IF g1.player_y > MAX_Y
        THEN [g1 EXCEPT !.player_y = MAX_Y, !.velocity_y = 0, !.on_ground = 1,
                        !.jumping = 0]
        ELSE g1

\* game_update(): the GameState it leaves and its local `landed'
PfUpdated(g) ==
    LET gv == [g EXCEPT !.velocity_y = PfGravity(g)]
        new_y == ToInt16(gv.player_y + gv.velocity_y)
    IN  IF gv.velocity_y < 0
        THEN [g |-> PfClamped(PfRise(gv, new_y)), landed |-> 0]
        ELSE [g |-> PfClamped(PfFall(gv, new_y)),
              landed |-> IF check_ground(gv.player_x, new_y) THEN 1 ELSE 0]

PlatformerUpdate ==
    /\ UNCHANGED PlatformerOthers
    /\ pf_pc = "update"
    /\ \E u \in { PfUpdated(pf_game) } :
          /\ pf_game' = u.g
          /\ pf_landed' = u.landed
    /\ pf_pc' = "render"
    /\ pf_frames' = pf_frames + 1
    /\ UNCHANGED << pf_input, pf_sprite, pf_bkg, pf_start >>

PlatformerNext ==
    \/ PlatformerRender
    \/ PlatformerHandleInput
    \/ PlatformerUpdate

(***************************************************************************)

(* THE SHOOTER'S RECTANGLE TEST ON ITS OWN                                 *)
(***************************************************************************)
\* positions and sizes passed in: the ends of the 8-bit range, values near
\* them, and the sizes of the shooter's sprites
CollisionCoords == {0, 1, 7, 8, 100, 248, 255}
CollisionSizes == {0, 1, 8, 255}

CollisionArgs ==
    [x1 : CollisionCoords, y1 : {0, 8, 255}, w1 : CollisionSizes, h1 : {0, 8, 255},
     x2 : CollisionCoords, y2 : {0, 7, 255}, w2 : CollisionSizes, h2 : {0, 8, 255}]

CollisionInit ==
    /\ cc_pc = "call"
    /\ cc_args \in CollisionArgs
    /\ cc_ret = FALSE

CollisionParked ==
    /\ cc_pc = "off"
    /\ cc_args = << >>
    /\ cc_ret = FALSE

\* check_collision(x1, y1, w1, h1, x2, y2, w2, h2)
CollisionCall ==
    /\ UNCHANGED CollisionOthers
    /\ cc_pc = "call"
    /\ cc_ret' = check_collision(cc_args.x1, cc_args.y1, cc_args.w1, cc_args.h1,
                                 cc_args.x2, cc_args.y2, cc_args.w2, cc_args.h2)
    /\ cc_pc' = "done"
    /\ UNCHANGED cc_args

CollisionNext == CollisionCall

(***************************************************************************)
(* THE TIMER GAME                                                          *)
(***************************************************************************)
TM_STATE_TITLE == 0
TM_STATE_WAITING == 1
TM_STATE_READY == 2
TM_STATE_RESULT == 3
TM_STATE_FALSE_START == 4
MIN_DELAY_MS == 1000
MAX_DELAY_MS == 3000
\* game.best_time = 9999; no best time yet
TM_BEST_NONE == 9999

\* loop bodies played
MaxTimerFrames == 2

\* runs of timer_isr within one loop body
MaxTimerIsrs == 2

\* controller masks a frame may read
TimerInputs == {0, J_A, J_START}

\* MIN_DELAY_MS + (rand16() % (MAX_DELAY_MS - MIN_DELAY_MS)), from the
\* value the call returns
TmDelayOf(seed) == MIN_DELAY_MS + (seed % (MAX_DELAY_MS - MIN_DELAY_MS))

\* game_init(), with the screen last drawn named
TmGameInit ==
    [state |-> TM_STATE_TITLE, timer_ms |-> 0, delay_target |-> 0,
     reaction_time |-> 0, best_time |-> TM_BEST_NONE, screen |-> "title"]

\* the game a round into the wait: START pressed on the title and released
TmGameWaiting ==
    [TmGameInit EXCEPT !.state = TM_STATE_WAITING,
                       !.delay_target = TmDelayOf(rand16(TIMER_SEED_INIT)),
                       !.screen = "waiting"]

\* the counter on the title screen, where it runs freely and wraps: zero,
\* the value before a carry into the high byte, the value before the wrap
TimerTitleTicks == {0, 255, 65535}

\* the loop about to begin a body: on the title screen, or waiting with the
\* delay about to elapse
TimerInit ==
    /\ tm_pc = "wait"
    /\ tm_ime = TRUE
    /\ \/ /\ tm_game = TmGameInit
          /\ tm_rand_seed = TIMER_SEED_INIT
          /\ tm_ticks \in TimerTitleTicks
       \/ /\ tm_game = TmGameWaiting
          /\ tm_rand_seed = rand16(TIMER_SEED_INIT)
          /\ tm_ticks \in {TmGameWaiting.delay_target - 2, TmGameWaiting.delay_target - 1}
    /\ tm_input = [prev |-> 0, curr |-> 0]
    /\ tm_count = [frames |-> 0, isrs |-> 0]
    /\ tm_latch = << >>
    /\ tm_access = << >>

TimerParked ==
    /\ tm_pc = "off"
    /\ tm_ime = FALSE
    /\ tm_ticks = 0
    /\ tm_game = << >>
    /\ tm_rand_seed = 0
    /\ tm_input = << >>
    /\ tm_count = << >>
    /\ tm_latch = << >>
    /\ tm_access = << >>

\* timer_isr(): timer_ticks++, whenever interrupts are enabled; a run in the
\* middle of a main-context access is recorded with the access
TimerIsr ==
    /\ UNCHANGED TimerOthers
    /\ tm_pc # "off"
    /\ tm_ime
    /\ tm_count.isrs < MaxTimerIsrs
    /\ tm_ticks' = (tm_ticks + 1) % 65536
    /\ tm_count' = [tm_count EXCEPT !.isrs = @ + 1]
    /\ tm_latch' = IF tm_latch = << >> THEN tm_latch
                   ELSE [tm_latch EXCEPT !.held = @ \cup {tm_ticks'}]
    /\ UNCHANGED << tm_pc, tm_ime, tm_game, tm_rand_seed, tm_input, tm_access >>

\* wait_vbl_done()
TimerWaitVbl ==
    /\ UNCHANGED TimerOthers
    /\ tm_pc = "wait"
    /\ tm_count.frames < MaxTimerFrames
    /\ tm_count' = [frames |-> tm_count.frames + 1, isrs |-> 0]
    /\ tm_pc' = "input"
    /\ UNCHANGED << tm_ime, tm_ticks, tm_game, tm_rand_seed, tm_input, tm_latch,
                    tm_access >>

\* game_handle_input() down to the first access of timer_ticks: the edge
\* detector and the switch on game.state; a branch that calls reset_timer()
\* or get_elapsed_ms() stops after disable_interrupts()
TimerHandleInput ==
    /\ UNCHANGED TimerOthers
    /\ tm_pc = "input"
    /\ \E joy \in TimerInputs :
          LET pressed == JoyPressed(joy, tm_input.curr)
              st == tm_game.state
              restart == \/ st = TM_STATE_TITLE /\ Held(pressed, J_START)
                         \/ st \in {TM_STATE_RESULT, TM_STATE_FALSE_START}
                               /\ Held(pressed, J_A)
          IN  /\ tm_input' = [prev |-> tm_input.curr, curr |-> joy]
              /\ IF restart
                 THEN /\ tm_rand_seed' = rand16(tm_rand_seed)
                      /\ tm_game' = [tm_game EXCEPT
                                        !.delay_target = TmDelayOf(rand16(tm_rand_seed))]
                      /\ tm_ime' = FALSE
                      /\ tm_pc' = "hi_reset"
                 ELSE IF st = TM_STATE_WAITING /\ Held(pressed, J_A)
                 THEN /\ tm_game' = [tm_game EXCEPT !.state = TM_STATE_FALSE_START,
                                                    !.screen = "false_start"]
                      /\ tm_pc' = "stir"
                      /\ UNCHANGED << tm_rand_seed, tm_ime >>
                 ELSE IF st = TM_STATE_READY /\ Held(pressed, J_A)
                 THEN /\ tm_ime' = FALSE
                      /\ tm_pc' = "hi_read"
                      /\ UNCHANGED << tm_rand_seed, tm_game >>
                 ELSE /\ tm_pc' = "stir"
                      /\ UNCHANGED << tm_rand_seed, tm_game, tm_ime >>
    /\ UNCHANGED << tm_ticks, tm_count, tm_latch, tm_access >>

\* reset_timer() from game_handle_input, after disable_interrupts(): the
\* store, enable_interrupts(), and the rest of the branch
TimerInputReset ==
    /\ UNCHANGED TimerOthers
    /\ tm_pc = "hi_reset"
    /\ tm_ticks' = 0
    /\ tm_access' = [at |-> "reset_timer", v |-> 0, held |-> {0}]
    /\ tm_ime' = TRUE
    /\ tm_game' = [tm_game EXCEPT !.state = TM_STATE_WAITING, !.screen = "waiting"]
    /\ tm_pc' = "stir"
    /\ UNCHANGED << tm_rand_seed, tm_input, tm_count, tm_latch >>

\* get_elapsed_ms() from game_handle_input, after disable_interrupts(): the
\* read, enable_interrupts(), and the rest of the STATE_READY branch
TimerInputRead ==
    /\ UNCHANGED TimerOthers
    /\ tm_pc = "hi_read"
    /\ tm_access' = [at |-> "get_elapsed_ms", v |-> tm_ticks, held |-> {tm_ticks}]
    /\ tm_ime' = TRUE
    /\ tm_game' = [tm_game EXCEPT
                      !.reaction_time = tm_ticks,
                      !.best_time = IF tm_ticks < @ THEN tm_ticks ELSE @,
                      !.state = TM_STATE_RESULT,
                      !.screen = "result"]
    /\ tm_pc' = "stir"
    /\ UNCHANGED << tm_ticks, tm_rand_seed, tm_input, tm_count, tm_latch >>

\* a two-byte read of timer_ticks whose halves come from different moments
TmAssembled(latch, ticks) ==
    IF latch.first = "lo" THEN latch.v + 256 * (ticks \div 256)
    ELSE (ticks % 256) + 256 * latch.v

\* if (curr_input) rand_seed ^= timer_ticks; the 8-bit processor loads the
\* counter one byte at a time, in the order the build chose, with interrupts
\* as they are: this is the first load
TimerStirFirst ==
    /\ UNCHANGED TimerOthers
    /\ tm_pc = "stir"
    /\ IF tm_input.curr = 0
       THEN /\ tm_pc' = "update"
            /\ UNCHANGED tm_latch
       ELSE /\ tm_pc' = "stir2"
            /\ \E first \in {"lo", "hi"} :
                  tm_latch' = [first |-> first,
                               v |-> IF first = "lo" THEN tm_ticks % 256
                                     ELSE tm_ticks \div 256,
                               held |-> {tm_ticks}]
    /\ UNCHANGED << tm_ime, tm_ticks, tm_game, tm_rand_seed, tm_input, tm_count,
                    tm_access >>

\* the second load, and the exclusive-or into rand_seed
TimerStirSecond ==
    /\ UNCHANGED TimerOthers
    /\ tm_pc = "stir2"
    /\ \E v \in { TmAssembled(tm_latch, tm_ticks) } :
          /\ tm_rand_seed' = BitXor(tm_rand_seed, v, 16)
          /\ tm_access' = [at |-> "game_handle_input", v |-> v, held |-> tm_latch.held]
    /\ tm_latch' = << >>
    /\ tm_pc' = "update"
    /\ UNCHANGED << tm_ime, tm_ticks, tm_game, tm_input, tm_count >>

\* game_update() down to the read in get_elapsed_ms(): disable_interrupts()
\* when the game is waiting
TimerUpdate ==
    /\ UNCHANGED TimerOthers
    /\ tm_pc = "update"
    /\ IF tm_game.state = TM_STATE_WAITING
       THEN tm_ime' = FALSE /\ tm_pc' = "up_read"
       ELSE tm_pc' = "render" /\ UNCHANGED tm_ime
    /\ UNCHANGED << tm_ticks, tm_game, tm_rand_seed, tm_input, tm_count, tm_latch,
                    tm_access >>

\* get_elapsed_ms() from game_update: the read, enable_interrupts(), and
\* the comparison with game.delay_target
TimerUpdateRead ==
    /\ UNCHANGED TimerOthers
    /\ tm_pc = "up_read"
    /\ tm_access' = [at |-> "get_elapsed_ms", v |-> tm_ticks, held |-> {tm_ticks}]
    /\ tm_ime' = TRUE
    /\ tm_pc' = IF tm_ticks >= tm_game.delay_target THEN "up_gap" ELSE "render"
    /\ UNCHANGED << tm_ticks, tm_game, tm_rand_seed, tm_input, tm_count, tm_latch >>

\* reset_timer() from game_update: disable_interrupts()
TimerUpdateMask ==
    /\ UNCHANGED TimerOthers
    /\ tm_pc = "up_gap"
    /\ tm_ime' = FALSE
    /\ tm_pc' = "up_reset"
    /\ UNCHANGED << tm_ticks, tm_game, tm_rand_seed, tm_input, tm_count, tm_latch,
                    tm_access >>

\* reset_timer() from game_update: the store, enable_interrupts(), and the
\* change to STATE_READY
TimerUpdateReset ==
    /\ UNCHANGED TimerOthers
    /\ tm_pc = "up_reset"
    /\ tm_ticks' = 0
    /\ tm_access' = [at |-> "reset_timer", v |-> 0, held |-> {0}]
    /\ tm_ime' = TRUE
    /\ tm_game' = [tm_game EXCEPT !.state = TM_STATE_READY, !.screen = "go"]
    /\ tm_pc' = "render"
    /\ UNCHANGED << tm_rand_seed, tm_input, tm_count, tm_latch >>

\* game_render(): nothing to do
TimerRender ==
    /\ UNCHANGED TimerOthers
    /\ tm_pc = "render"
    /\ tm_pc' = "wait"
    /\ UNCHANGED << tm_ime, tm_ticks, tm_game, tm_rand_seed, tm_input, tm_count,
                    tm_latch, tm_access >>

TimerNext ==
    \/ TimerIsr
    \/ TimerWaitVbl
    \/ TimerHandleInput
    \/ TimerInputReset
    \/ TimerInputRead
    \/ TimerStirFirst
    \/ TimerStirSecond
    \/ TimerUpdate
    \/ TimerUpdateRead
    \/ TimerUpdateMask
    \/ TimerUpdateReset
    \/ TimerRender

(***************************************************************************)
(* SNAKE                                                                   *)
(***************************************************************************)
SN_GRID_WIDTH == 20
SN_GRID_HEIGHT == 18
SNAKE_MAX_LENGTH == 64
SNAKE_START_LENGTH == 3
MOVE_DELAY == 8
DIR_NONE == 0
DIR_UP == 1
DIR_DOWN == 2
DIR_LEFT == 3
DIR_RIGHT == 4
\* while (!valid && attempts < 100)
SPAWN_ATTEMPTS == 100

\* handler calls made in a run
MaxSnakeSteps == 4

\* controller masks a call of game_handle_input may read
SnakeInputs == {0, J_UP, J_DOWN, J_LEFT, J_RIGHT, J_START}

SnSlots == 0..(SNAKE_MAX_LENGTH - 1)

\* the loops over the snake in game_spawn_food and check_self_collision:
\* whether one of the first `n' entries from tail_idx holds `pos'
SnAmong(g, n, pos) ==
    \E i \in 0..(n - 1) : g.body[(g.tail_idx + i) % SNAKE_MAX_LENGTH] = pos

\* game_spawn_food(): up to 100 draws, each kept in game.food, until one is
\* not on the snake; the generator's state comes back with the game
RECURSIVE SpawnFoodFrom(_, _, _, _)
SpawnFoodFrom(g, state, frame_count, attempts) ==
    IF attempts >= SPAWN_ATTEMPTS THEN [g |-> g, state |-> state]
    ELSE LET rx == random_byte(state, frame_count)
             ry == random_byte(rx.state, frame_count)
             food == [x |-> rx.ret % SN_GRID_WIDTH, y |-> ry.ret % SN_GRID_HEIGHT]
             g1 == [g EXCEPT !.food = food]
         IN  IF ~SnAmong(g1, g1.length, food) THEN [g |-> g1, state |-> ry.state]
             ELSE SpawnFoodFrom(g1, ry.state, frame_count, attempts + 1)

game_spawn_food(g, state, frame_count) == SpawnFoodFrom(g, state, frame_count, 0)

\* the game structure at program start: all zero
SnZeroGame ==
    [body |-> [i \in SnSlots |-> [x |-> 0, y |-> 0]],
     head_idx |-> 0, tail_idx |-> 0, length |-> 0,
     direction |-> 0, next_direction |-> 0, move_timer |-> 0,
     food |-> [x |-> 0, y |-> 0], score |-> 0, game_over |-> 0, paused |-> 0]

\* game_init(): three segments in the middle, facing right, and the first
\* food
SnGameInit(g, state, frame_count) ==
    LET start_x == SN_GRID_WIDTH \div 2
        start_y == SN_GRID_HEIGHT \div 2
        g1 == [g EXCEPT
                 !.head_idx = SNAKE_START_LENGTH - 1,
                 !.tail_idx = 0,
                 !.length = SNAKE_START_LENGTH,
                 !.body = [i \in SnSlots |->
                             IF i < SNAKE_START_LENGTH
                             THEN [x |-> start_x - (SNAKE_START_LENGTH - 1) + i,
                                   y |-> start_y]
                             ELSE g.body[i]],
                 !.direction = DIR_RIGHT,
                 !.next_direction = DIR_RIGHT,
                 !.move_timer = MOVE_DELAY,
                 !.score = 0, !.game_over = 0, !.paused = 0]
    IN  game_spawn_food(g1, state, frame_count)

\* a direction buffer that takes every press
SnBufferedUnchecked(g, joy) ==
    IF Held(joy, J_UP) THEN [g EXCEPT !.next_direction = DIR_UP]
    ELSE IF Held(joy, J_DOWN) THEN [g EXCEPT !.next_direction = DIR_DOWN]
    ELSE IF Held(joy, J_LEFT) THEN [g EXCEPT !.next_direction = DIR_LEFT]
    ELSE IF Held(joy, J_RIGHT) THEN [g EXCEPT !.next_direction = DIR_RIGHT]
    ELSE g

\* game_handle_input(), the direction buffer: a press is taken unless the
\* snake is moving the opposite way
SnBuffered(g, joy) ==
    IF Held(joy, J_UP)
    THEN (IF g.direction # DIR_DOWN THEN [g EXCEPT !.next_direction = DIR_UP] ELSE g)
    ELSE IF Held(joy, J_DOWN)
    THEN (IF g.direction # DIR_UP THEN [g EXCEPT !.next_direction = DIR_DOWN] ELSE g)
    ELSE IF Held(joy, J_LEFT)
    THEN (IF g.direction # DIR_RIGHT THEN [g EXCEPT !.next_direction = DIR_LEFT] ELSE g)
    ELSE IF Held(joy, J_RIGHT)
    THEN (IF g.direction # DIR_LEFT THEN [g EXCEPT !.next_direction = DIR_RIGHT] ELSE g)
    ELSE g

\* game_handle_input(): the mask into the generator, START for pause or
\* restart, then the direction buffer
SnHandled(g, rng, input, joy) ==
    LET state1 == (rng.state + joy) % 65536
        start == Held(joy, J_START) /\ ~Held(input.curr, J_START)
        s == IF start /\ g.game_over # 0
             THEN SnGameInit(g, state1, rng.frame_count)
             ELSE IF start
             THEN [g |-> [g EXCEPT !.paused = IF g.paused = 0 THEN 1 ELSE 0],
                   state |-> state1]
             ELSE [g |-> g, state |-> state1]
    IN  [g |-> IF s.g.paused # 0 \/ s.g.game_over # 0 THEN s.g ELSE SnBuffered(s.g, joy),
         rng |-> [rng EXCEPT !.state = s.state],
         input |-> [prev |-> input.curr, curr |-> joy]]

\* check_self_collision(): the head against the length - 1 entries from
\* tail_idx
check_self_collision(g) ==
    IF SnAmong(g, g.length - 1, g.body[g.head_idx]) THEN 1 ELSE 0

\* the head one cell on in direction `dir'; the walls are looked at first
SnHitsWall(head, dir) ==
    \/ dir = DIR_UP /\ head.y = 0
    \/ dir = DIR_DOWN /\ head.y >= SN_GRID_HEIGHT - 1
    \/ dir = DIR_LEFT /\ head.x = 0
    \/ dir = DIR_RIGHT /\ head.x >= SN_GRID_WIDTH - 1

SnStepped(head, dir) ==
    IF dir = DIR_UP THEN [head EXCEPT !.y = @ - 1]
    ELSE IF dir = DIR_DOWN THEN [head EXCEPT !.y = @ + 1]
    ELSE IF dir = DIR_LEFT THEN [head EXCEPT !.x = @ - 1]
    ELSE IF dir = DIR_RIGHT THEN [head EXCEPT !.x = @ + 1]
    ELSE head

\* move_snake()
move_snake(g, state, frame_count) ==
    LET g1 == [g EXCEPT !.direction = g.next_direction]
        head == g1.body[g1.head_idx]
    IN  IF SnHitsWall(head, g1.direction)
        THEN [g |-> [g1 EXCEPT !.game_over = 1], state |-> state]
        ELSE LET new_head == SnStepped(head, g1.direction)
                 ate_food == new_head = g1.food
                 s == IF ate_food
                      THEN game_spawn_food([g1 EXCEPT !.score = (@ + 1) % 256],
                                           state, frame_count)
                      ELSE [g |-> g1, state |-> state]
                 head_idx == (s.g.head_idx + 1) % SNAKE_MAX_LENGTH
                 g2 == [s.g EXCEPT !.head_idx = head_idx,
                                   !.body[head_idx] = new_head]
                 g3 == IF ate_food
                       THEN (IF g2.length < SNAKE_MAX_LENGTH
                             THEN [g2 EXCEPT !.length = @ + 1] ELSE g2)
                       ELSE [g2 EXCEPT !.tail_idx = (@ + 1) % SNAKE_MAX_LENGTH]
             IN  [g |-> IF check_self_collision(g3) # 0
                        THEN [g3 EXCEPT !.game_over = 1] ELSE g3,
                  state |-> s.state]

\* game_update(): frame_count++, then the move timer
SnUpdated(g, rng) ==
    LET frame_count == (rng.frame_count + 1) % 256
        timer == (g.move_timer - 1) % 256
    IN  IF g.paused # 0 \/ g.game_over # 0
        THEN [g |-> g, rng |-> [rng EXCEPT !.frame_count = frame_count], moved |-> FALSE]
        ELSE IF timer # 0
        THEN [g |-> [g EXCEPT !.move_timer = timer],
              rng |-> [rng EXCEPT !.frame_count = frame_count], moved |-> FALSE]
        ELSE LET m == move_snake([g EXCEPT !.move_timer = MOVE_DELAY],
                                 rng.state, frame_count)
             IN  [g |-> m.g, rng |-> [state |-> m.state, frame_count |-> frame_count],
                  moved |-> TRUE]

\* snakes of earlier play: `len' segments along the rows from row r0, left
\* to right and back, the tail `c0' cells into the first row and stored at
\* buffer slot `tail'; the player steers the snake, so every such shape
\* comes up
SnCellAt(n, r0) ==
    [x |-> IF (n \div SN_GRID_WIDTH) % 2 = 0 THEN n % SN_GRID_WIDTH
           ELSE SN_GRID_WIDTH - 1 - (n % SN_GRID_WIDTH),
     y |-> r0 + (n \div SN_GRID_WIDTH)]

SnHeading(n) == IF (n \div SN_GRID_WIDTH) % 2 = 0 THEN DIR_RIGHT ELSE DIR_LEFT

SnShapes ==
    { [len |-> 3, c0 |-> 8, r0 |-> 9, tail |-> 0],
      [len |-> 3, c0 |-> 17, r0 |-> 9, tail |-> 0],
      [len |-> 4, c0 |-> 0, r0 |-> 0, tail |-> 62],
      [len |-> 63, c0 |-> 0, r0 |-> 0, tail |-> 0],
      [len |-> 63, c0 |-> 0, r0 |-> 0, tail |-> 5],
      [len |-> 64, c0 |-> 0, r0 |-> 0, tail |-> 0],
      [len |-> 64, c0 |-> 0, r0 |-> 0, tail |-> 37] }

\* the food: on the cell ahead of the head, or in the far corner
SnFoods(s) ==
    LET n == s.c0 + s.len - 1
    IN  { [x |-> SN_GRID_WIDTH - 1, y |-> SN_GRID_HEIGHT - 1] }
        \cup (IF n % SN_GRID_WIDTH = SN_GRID_WIDTH - 1 THEN {}
              ELSE { SnCellAt(n + 1, s.r0) })

SnMidGame(s, food, timer) ==
    [body |-> [i \in SnSlots |->
                  LET k == (i - s.tail) % SNAKE_MAX_LENGTH
                  IN  IF k < s.len THEN SnCellAt(s.c0 + k, s.r0)
                      ELSE [x |-> 0, y |-> 0]],
     head_idx |-> (s.tail + s.len - 1) % SNAKE_MAX_LENGTH,
     tail_idx |-> s.tail,
     length |-> s.len,
     direction |-> SnHeading(s.c0 + s.len - 1),
     next_direction |-> SnHeading(s.c0 + s.len - 1),
     move_timer |-> timer,
     food |-> food,
     score |-> s.len - SNAKE_START_LENGTH,
     game_over |-> 0, paused |-> 0]

\* states of the generator: the initial one, and one of those from which
\* the next two draws give column 11 and row 9; the input mask is added to
\* the state on every frame, paused or not, so every state comes up
SnakeRngStates == {SNAKE_SEED_INIT, 224}

\* the move timer: the next update moves the snake, or the one after next
SnakeStarts ==
    UNION { { SnMidGame(s, food, timer) : food \in SnFoods(s), timer \in {1, 3} } :
            s \in SnShapes }

\* the game after game_init() at program start, or in mid-game with the
\* food off the snake
SnakeInit ==
    /\ sn_pc = "run"
    /\ sn_steps = 0
    /\ sn_input = [prev |-> 0, curr |-> 0]
    /\ sn_moved = << >>
    /\ \/ /\ sn_game = SnGameInit(SnZeroGame, SNAKE_SEED_INIT, 0).g
          /\ sn_rng = [state |-> SnGameInit(SnZeroGame, SNAKE_SEED_INIT, 0).state,
                       frame_count |-> 0]
       \/ /\ sn_game \in SnakeStarts
          /\ sn_rng \in [state : SnakeRngStates, frame_count : {0}]

SnakeParked ==
    /\ sn_pc = "off"
    /\ sn_steps = 0
    /\ sn_game = << >>
    /\ sn_rng = << >>
    /\ sn_input = << >>
    /\ sn_moved = << >>

\* game_handle_input()
SnakeHandleInput ==
    /\ UNCHANGED SnakeOthers
    /\ sn_pc = "run"
    /\ sn_steps < MaxSnakeSteps
    /\ \E joy \in SnakeInputs :
          \E h \in { SnHandled(sn_game, sn_rng, sn_input, joy) } :
              /\ sn_game' = h.g
              /\ sn_rng' = h.rng
              /\ sn_input' = h.input
    /\ sn_steps' = sn_steps + 1
    /\ UNCHANGED << sn_pc, sn_moved >>

\* game_update()
SnakeUpdate ==
    /\ UNCHANGED SnakeOthers
    /\ sn_pc = "run"
    /\ sn_steps < MaxSnakeSteps
    /\ \E u \in { SnUpdated(sn_game, sn_rng) } :
          /\ sn_game' = u.g
          /\ sn_rng' = u.rng
          /\ sn_moved' = IF u.moved
                         THEN [from |-> sn_game.direction, to |-> u.g.direction]
                         ELSE sn_moved
    /\ sn_steps' = sn_steps + 1
    /\ UNCHANGED << sn_pc, sn_input >>

SnakeNext == SnakeHandleInput \/ SnakeUpdate

(***************************************************************************)
(* SIMON (games/samples/simon/src): game.c, game.h, sprites.h, main.c      *)
(***************************************************************************)
SI_STATE_TITLE == 0
SI_STATE_SHOW_PATTERN == 1
SI_STATE_PLAYER_INPUT == 2
SI_STATE_CORRECT == 3
SI_STATE_GAME_OVER == 4
SI_STATE_WIN == 5

BTN_UP == 0
BTN_RIGHT == 1
BTN_DOWN == 2
BTN_LEFT == 3

MAX_SEQUENCE == 32
FLASH_FRAMES == 20
PAUSE_FRAMES == 10
INPUT_TIMEOUT == 120
\* the pause after a completed round, game.pause_timer = 60
CORRECT_PAUSE == 60
\* lit_button = 0xFF: no button lit
NO_BUTTON == 255

MSG_NONE == 0
MSG_WATCH == 1
MSG_PLAY == 2
MSG_GAME_OVER == 3
MSG_WIN == 4

\* rounds a run adds to the pattern
MaxSimonRounds == 2
\* joypad() in the runs
SimonInputs == {0, J_UP, J_RIGHT, J_START}
\* rand() & 0x03 in the runs
SimonDraws == {BTN_UP, BTN_RIGHT}

SiButtons == BTN_UP .. BTN_LEFT
SiDpad == J_UP + J_RIGHT + J_DOWN + J_LEFT

\* In the operators below s is the game with its screen: [g |-> game,
\* b |-> background].  draw_button() writes the sixteen tiles of one button,
\* all lit or all unlit, so the background keeps one flag a button.
draw_button(s, button, lit) == [s EXCEPT !.b.lit[button] = (lit # 0)]

draw_all_buttons(s) ==
    draw_button(draw_button(draw_button(draw_button(s, BTN_UP, 0), BTN_RIGHT, 0),
                            BTN_DOWN, 0), BTN_LEFT, 0)

light_button(s, button) ==
    [draw_button(s, button, 1) EXCEPT !.g.lit_button = button]

unlight_button(s, button) ==
    [draw_button(s, button, 0) EXCEPT !.g.lit_button = NO_BUTTON]

\* add_to_sequence(), r the value of rand() & 0x03
add_to_sequence(s, r) ==
    IF s.g.sequence_length < MAX_SEQUENCE
    THEN [s EXCEPT !.g.sequence[s.g.sequence_length] = r,
                   !.g.sequence_length = @ + 1]
    ELSE s

\* draw_message(): the message row
SiDrawMessage(s, msg) == [s EXCEPT !.b.msg = msg]

\* draw_hud(): draw_number(7, 0, game.score, 2)
SiDrawHud(s) ==
    [s EXCEPT !.b.hud = << (s.g.score \div 10) % 10, s.g.score % 10 >>]

start_show_pattern(s) ==
    SiDrawMessage([s EXCEPT !.g.current_step = 0,
                            !.g.flash_timer = 0,
                            !.g.pause_timer = PAUSE_FRAMES,
                            !.g.state = SI_STATE_SHOW_PATTERN], MSG_WATCH)

\* game_init()
SiGameInit ==
    [g |-> [sequence |-> [i \in 0 .. MAX_SEQUENCE - 1 |-> 0],
            sequence_length |-> 0, current_step |-> 0,
            flash_timer |-> 0, pause_timer |-> 0, input_timer |-> 0,
            lit_button |-> NO_BUTTON, last_keys |-> 0,
            score |-> 0, high_score |-> 0, state |-> SI_STATE_TITLE],
     b |-> [lit |-> [k \in SiButtons |-> FALSE], msg |-> MSG_NONE,
            hud |-> << 0, 0 >>]]

\* if (game.score > game.high_score) game.high_score = game.score;
SiRecordHigh(s) ==
    IF s.g.score > s.g.high_score
    THEN [s EXCEPT !.g.high_score = s.g.score]
    ELSE s

\* game over: the state, the message, the high score
SiGameOver(s) ==
    SiRecordHigh(SiDrawMessage([s EXCEPT !.g.state = SI_STATE_GAME_OVER],
                               MSG_GAME_OVER))

\* START on the title screen
SiStart(s, r) ==
    start_show_pattern(
        add_to_sequence([s EXCEPT !.g.score = 0, !.g.sequence_length = 0], r))

\* START after GAME OVER or WIN
SiRestart(s, r) ==
    SiDrawHud(start_show_pattern(
        add_to_sequence(
            draw_all_buttons([s EXCEPT !.g.score = 0, !.g.sequence_length = 0]),
            r)))

\* the D-pad key game_handle_input() takes from the newly pressed keys
SiInputButton(pressed) ==
    IF BitAnd(pressed, J_UP, 8) # 0 THEN BTN_UP
    ELSE IF BitAnd(pressed, J_RIGHT, 8) # 0 THEN BTN_RIGHT
    ELSE IF BitAnd(pressed, J_DOWN, 8) # 0 THEN BTN_DOWN
    ELSE IF BitAnd(pressed, J_LEFT, 8) # 0 THEN BTN_LEFT
    ELSE NO_BUTTON

\* the rest of a press once the button is lit and the timers are set:
\* the comparison with the pattern
SiJudged(t, input_button) ==
    IF input_button = t.g.sequence[t.g.current_step]
    THEN LET n == [t EXCEPT !.g.current_step = @ + 1]
         IN  IF n.g.current_step >= n.g.sequence_length
             THEN LET h == SiDrawHud([n EXCEPT !.g.score = n.g.sequence_length])
                  IN  IF h.g.sequence_length >= MAX_SEQUENCE
                      THEN SiDrawMessage([h EXCEPT !.g.state = SI_STATE_WIN],
                                         MSG_WIN)
                      ELSE [h EXCEPT !.g.state = SI_STATE_CORRECT,
                                     !.g.pause_timer = CORRECT_PAUSE]
             ELSE n
    ELSE SiGameOver(t)

SiPressedNoRestart(s, input_button) ==
    SiJudged([light_button(s, input_button) EXCEPT
                  !.g.flash_timer = FLASH_FRAMES], input_button)

\* a D-pad press in PLAYER_INPUT
SiPressed(s, input_button) ==
    SiJudged([light_button(s, input_button) EXCEPT
                  !.g.flash_timer = FLASH_FRAMES,
                  !.g.input_timer = INPUT_TIMEOUT], input_button)

\* game_handle_input() with joypad() = keys
SiHandled(s, keys, r) ==
    LET pressed == BitAnd(keys, Not8(s.g.last_keys), 8)
        t == IF s.g.state = SI_STATE_TITLE
             THEN IF BitAnd(pressed, J_START, 8) # 0 THEN SiStart(s, r) ELSE s
             ELSE IF s.g.state = SI_STATE_PLAYER_INPUT
             THEN IF SiInputButton(pressed) # NO_BUTTON
                  THEN SiPressed(s, SiInputButton(pressed))
                  ELSE s
             ELSE IF s.g.state \in {SI_STATE_GAME_OVER, SI_STATE_WIN}
             THEN IF BitAnd(pressed, J_START, 8) # 0 THEN SiRestart(s, r) ELSE s
             ELSE s
    IN  [t EXCEPT !.g.last_keys = keys]

\* the flash running out: the lit button is drawn unlit
SiFlashDown(s) ==
    IF s.g.flash_timer > 0
    THEN LET t == [s EXCEPT !.g.flash_timer = @ - 1]
         IN  IF t.g.flash_timer = 0 /\ t.g.lit_button # NO_BUTTON
             THEN unlight_button(t, t.g.lit_button)
             ELSE t
    ELSE s

\* game_update(), case STATE_SHOW_PATTERN
SiShowPattern(s) ==
    IF s.g.pause_timer > 0
    THEN [s EXCEPT !.g.pause_timer = @ - 1]
    ELSE IF s.g.flash_timer > 0
    THEN LET t == [s EXCEPT !.g.flash_timer = @ - 1]
         IN  IF t.g.flash_timer = 0
             THEN [unlight_button(t, t.g.sequence[t.g.current_step]) EXCEPT
                       !.g.current_step = @ + 1,
                       !.g.pause_timer = PAUSE_FRAMES]
             ELSE t
    ELSE IF s.g.current_step < s.g.sequence_length
    THEN [light_button(s, s.g.sequence[s.g.current_step]) EXCEPT
              !.g.flash_timer = FLASH_FRAMES]
    ELSE SiDrawMessage([s EXCEPT !.g.current_step = 0,
                                 !.g.input_timer = INPUT_TIMEOUT,
                                 !.g.state = SI_STATE_PLAYER_INPUT], MSG_PLAY)

\* game_update(), case STATE_PLAYER_INPUT
SiPlayerInput(s) ==
    LET t == SiFlashDown(s)
    IN  IF t.g.input_timer > 0
        THEN LET u == [t EXCEPT !.g.input_timer = @ - 1]
             IN  IF u.g.input_timer = 0 THEN SiGameOver(u) ELSE u
        ELSE t

\* game_update(), case STATE_CORRECT
SiCorrect(s, r) ==
    LET t == SiFlashDown(s)
    IN  IF t.g.lit_button = NO_BUTTON /\ t.g.pause_timer > 0
        THEN [t EXCEPT !.g.pause_timer = @ - 1]
        ELSE IF t.g.lit_button = NO_BUTTON /\ t.g.pause_timer = 0
        THEN start_show_pattern(add_to_sequence(t, r))
        ELSE t

\* game_update()
SiUpdated(s, r) ==
    IF s.g.state = SI_STATE_SHOW_PATTERN THEN SiShowPattern(s)
    ELSE IF s.g.state = SI_STATE_PLAYER_INPUT THEN SiPlayerInput(s)
    ELSE IF s.g.state = SI_STATE_CORRECT THEN SiCorrect(s, r)
    ELSE IF s.g.state \in {SI_STATE_GAME_OVER, SI_STATE_WIN} THEN SiFlashDown(s)
    ELSE s

\* the pattern is about to grow: the end of the pause after a round
SiGrows(s) ==
    /\ s.g.state = SI_STATE_CORRECT
    /\ SiFlashDown(s).g.lit_button = NO_BUTTON
    /\ s.g.pause_timer = 0

SimonNow == [g |-> si_game, b |-> si_bkg]

\* one press before the last of the longest pattern: the player has just
\* repeated step 30 of 32, all of them UP, and the key is still down
SiLastRound ==
    [g |-> [sequence |-> [i \in 0 .. MAX_SEQUENCE - 1 |-> BTN_UP],
            sequence_length |-> MAX_SEQUENCE,
            current_step |-> MAX_SEQUENCE - 1,
            flash_timer |-> FLASH_FRAMES - 1, pause_timer |-> 0,
            input_timer |-> INPUT_TIMEOUT - 1,
            lit_button |-> BTN_UP, last_keys |-> J_UP,
            score |-> MAX_SEQUENCE - 1, high_score |-> 0,
            state |-> SI_STATE_PLAYER_INPUT],
     b |-> [lit |-> [k \in SiButtons |-> k = BTN_UP], msg |-> MSG_PLAY,
            hud |-> << ((MAX_SEQUENCE - 1) \div 10) % 10,
                       (MAX_SEQUENCE - 1) % 10 >>]]

\* the second round at the frame its pattern, UP then RIGHT, has been shown
SiSecondRound ==
    [g |-> [sequence |-> [i \in 0 .. MAX_SEQUENCE - 1 |->
                              IF i = 1 THEN BTN_RIGHT ELSE BTN_UP],
            sequence_length |-> 2, current_step |-> 0,
            flash_timer |-> 0, pause_timer |-> 0,
            input_timer |-> INPUT_TIMEOUT,
            lit_button |-> NO_BUTTON, last_keys |-> 0,
            score |-> 1, high_score |-> 0,
            state |-> SI_STATE_PLAYER_INPUT],
     b |-> [lit |-> [k \in SiButtons |-> FALSE], msg |-> MSG_PLAY,
            hud |-> << 0, 1 >>]]

\* main() after game_init(), the second round, or the last round of the
\* longest pattern
SimonInit ==
    /\ si_pc = "input"
    /\ \/ /\ si_game = SiGameInit.g
          /\ si_bkg = SiGameInit.b
          /\ si_frame = [began |-> SI_STATE_TITLE, press |-> FALSE]
       \/ /\ si_game = SiSecondRound.g
          /\ si_bkg = SiSecondRound.b
          /\ si_frame = [began |-> SI_STATE_SHOW_PATTERN, press |-> FALSE]
       \/ /\ si_game = SiLastRound.g
          /\ si_bkg = SiLastRound.b
          /\ si_frame = [began |-> SI_STATE_PLAYER_INPUT, press |-> TRUE]
    /\ si_quiet = 0

SimonParked ==
    /\ si_pc = "off"
    /\ si_game = << >>
    /\ si_bkg = << >>
    /\ si_frame = << >>
    /\ si_quiet = 0

\* wait_vbl_done(); game_handle_input();
SimonHandleInput ==
    /\ UNCHANGED SimonOthers
    /\ si_pc = "input"
    /\ \E keys \in SimonInputs, r \in SimonDraws :
        LET h == SiHandled(SimonNow, keys, r)
        IN  /\ si_game' = h.g
            /\ si_bkg' = h.b
            /\ si_frame' =
                 [began |-> si_game.state,
                  press |-> BitAnd(BitAnd(keys, Not8(si_game.last_keys), 8),
                                   SiDpad, 8) # 0]
    /\ si_pc' = "update"
    /\ UNCHANGED si_quiet

\* game_update(); game_draw();
SimonUpdate ==
    /\ UNCHANGED SimonOthers
    /\ si_pc = "update"
    /\ SiGrows(SimonNow) => si_game.sequence_length < MaxSimonRounds
    /\ \E r \in SimonDraws :
        LET u == SiUpdated(SimonNow, r)
        IN  /\ si_game' = u.g
            /\ si_bkg' = u.b
    /\ si_quiet' = IF si_frame.began = SI_STATE_PLAYER_INPUT /\ ~si_frame.press
                   THEN si_quiet + 1
                   ELSE 0
    /\ si_pc' = "input"
    /\ UNCHANGED si_frame

SimonNext == SimonHandleInput \/ SimonUpdate

(***************************************************************************)

(* Specifications                                                          *)
(***************************************************************************)
vars ==
    << ClickerVars, ShooterVars, FishingVars, PuzzleVars, PlacementVars, ReplayVars,
       RandomVars, GeneratorsVars, ParallaxVars, PlatformerVars, CollisionVars,
       TimerVars, SnakeVars, SimonVars >>

InitClicker ==
    ClickerInit /\ ShooterParked /\ FishingParked /\ PuzzleParked /\ PlacementParked
        /\ ReplayParked /\ RandomParked /\ GeneratorsParked /\ ParallaxParked
        /\ PlatformerParked /\ CollisionParked /\ TimerParked /\ SnakeParked
        /\ SimonParked

SpecClicker == InitClicker /\ [][ClickerNext]_vars

InitShooter ==
    ClickerParked /\ ShooterInit /\ FishingParked /\ PuzzleParked /\ PlacementParked
        /\ ReplayParked /\ RandomParked /\ GeneratorsParked /\ ParallaxParked
        /\ PlatformerParked /\ CollisionParked /\ TimerParked /\ SnakeParked
        /\ SimonParked

SpecShooter == InitShooter /\ [][ShooterNext]_vars

InitFishing ==
    ClickerParked /\ ShooterParked /\ FishingInit /\ PuzzleParked /\ PlacementParked
        /\ ReplayParked /\ RandomParked /\ GeneratorsParked /\ ParallaxParked
        /\ PlatformerParked /\ CollisionParked /\ TimerParked /\ SnakeParked
        /\ SimonParked

SpecFishing == InitFishing /\ [][FishingNext]_vars

InitPuzzle ==
    ClickerParked /\ ShooterParked /\ FishingParked /\ PuzzleInit /\ PlacementParked
        /\ ReplayParked /\ RandomParked /\ GeneratorsParked /\ ParallaxParked
        /\ PlatformerParked /\ CollisionParked /\ TimerParked /\ SnakeParked
        /\ SimonParked

SpecPuzzle == InitPuzzle /\ [][PuzzleNext]_vars

InitPuzzleLock ==
    ClickerParked /\ ShooterParked /\ FishingParked /\ PuzzleLockInit /\ PlacementParked
        /\ ReplayParked /\ RandomParked /\ GeneratorsParked /\ ParallaxParked
        /\ PlatformerParked /\ CollisionParked /\ TimerParked /\ SnakeParked
        /\ SimonParked

SpecPuzzleLock == InitPuzzleLock /\ [][PuzzleLockNext]_vars

InitPlacement ==
    ClickerParked /\ ShooterParked /\ FishingParked /\ PuzzleParked /\ PlacementInit
        /\ ReplayParked /\ RandomParked /\ GeneratorsParked /\ ParallaxParked
        /\ PlatformerParked /\ CollisionParked /\ TimerParked /\ SnakeParked
        /\ SimonParked

SpecPlacement == InitPlacement /\ [][PlacementNext]_vars

InitSave ==
    SaveInit /\ ShooterParked /\ FishingParked /\ PuzzleParked /\ PlacementParked
        /\ ReplayParked /\ RandomParked /\ GeneratorsParked /\ ParallaxParked
        /\ PlatformerParked /\ CollisionParked /\ TimerParked /\ SnakeParked
        /\ SimonParked

SpecSave == InitSave /\ [][SaveNext]_vars

InitReplay ==
    ClickerParked /\ ShooterParked /\ FishingParked /\ PuzzleParked /\ PlacementParked
        /\ ReplayInit /\ RandomParked /\ GeneratorsParked /\ ParallaxParked
        /\ PlatformerParked /\ CollisionParked /\ TimerParked /\ SnakeParked
        /\ SimonParked

SpecReplay == InitReplay /\ [][ReplayNext]_vars

InitRandom ==
    ClickerParked /\ ShooterParked /\ FishingParked /\ PuzzleParked /\ PlacementParked
        /\ ReplayParked /\ RandomInit /\ GeneratorsParked /\ ParallaxParked
        /\ PlatformerParked /\ CollisionParked /\ TimerParked /\ SnakeParked
        /\ SimonParked

SpecRandom == InitRandom /\ [][RandomNext]_vars

\* the games with a stored previous mask, one of them running
InitGenerators ==
    ClickerParked /\ ShooterParked /\ FishingParked /\ PuzzleParked /\ PlacementParked
        /\ ReplayParked /\ RandomParked /\ GeneratorsInit /\ ParallaxParked
        /\ PlatformerParked /\ CollisionParked /\ TimerParked /\ SnakeParked
        /\ SimonParked

SpecGenerators == InitGenerators /\ [][GeneratorsNext]_vars

InitSeedWrites ==
    ClickerParked /\ ShooterParked /\ FishingParked /\ PuzzleParked /\ PlacementParked
        /\ ReplayParked /\ RandomParked /\ SeedWritesInit /\ ParallaxParked
        /\ PlatformerParked /\ CollisionParked /\ TimerParked /\ SnakeParked
        /\ SimonParked

SpecSeedWrites == InitSeedWrites /\ [][SeedWritesNext]_vars

InitParallax ==
    ClickerParked /\ ShooterParked /\ FishingParked /\ PuzzleParked /\ PlacementParked
        /\ ReplayParked /\ RandomParked /\ GeneratorsParked /\ ParallaxInit
        /\ PlatformerParked /\ CollisionParked /\ TimerParked /\ SnakeParked
        /\ SimonParked

SpecParallax == InitParallax /\ [][ParallaxNext]_vars

InitPlatformer ==
    ClickerParked /\ ShooterParked /\ FishingParked /\ PuzzleParked /\ PlacementParked
        /\ ReplayParked /\ RandomParked /\ GeneratorsParked /\ ParallaxParked
        /\ PlatformerInit /\ CollisionParked /\ TimerParked /\ SnakeParked
        /\ SimonParked

SpecPlatformer == InitPlatformer /\ [][PlatformerNext]_vars

InitCollision ==
    ClickerParked /\ ShooterParked /\ FishingParked /\ PuzzleParked /\ PlacementParked
        /\ ReplayParked /\ RandomParked /\ GeneratorsParked /\ ParallaxParked
        /\ PlatformerParked /\ CollisionInit /\ TimerParked /\ SnakeParked
        /\ SimonParked

SpecCollision == InitCollision /\ [][CollisionNext]_vars

InitTimer ==
    ClickerParked /\ ShooterParked /\ FishingParked /\ PuzzleParked /\ PlacementParked
        /\ ReplayParked /\ RandomParked /\ GeneratorsParked /\ ParallaxParked
        /\ PlatformerParked /\ CollisionParked /\ TimerInit /\ SnakeParked
        /\ SimonParked

SpecTimer == InitTimer /\ [][TimerNext]_vars

InitSnake ==
    ClickerParked /\ ShooterParked /\ FishingParked /\ PuzzleParked /\ PlacementParked
        /\ ReplayParked /\ RandomParked /\ GeneratorsParked /\ ParallaxParked
        /\ PlatformerParked /\ CollisionParked /\ TimerParked /\ SnakeInit
        /\ SimonParked

SpecSnake == InitSnake /\ [][SnakeNext]_vars

InitDisplay ==
    ClickerShownInit /\ ShooterParked /\ FishingParked /\ PuzzleParked /\ PlacementParked
        /\ ReplayParked /\ RandomParked /\ GeneratorsParked /\ ParallaxParked
        /\ PlatformerParked /\ CollisionParked /\ TimerParked /\ SnakeParked
        /\ SimonParked

SpecDisplay == InitDisplay /\ [][ClickerNext]_vars

InitSimon ==
    ClickerParked /\ ShooterParked /\ FishingParked /\ PuzzleParked /\ PlacementParked
        /\ ReplayParked /\ RandomParked /\ GeneratorsParked /\ ParallaxParked
        /\ PlatformerParked /\ CollisionParked /\ TimerParked /\ SnakeParked
        /\ SimonInit

SpecSimon == InitSimon /\ [][SimonNext]_vars

InitPlatformerBox ==
    ClickerParked /\ ShooterParked /\ FishingParked /\ PuzzleParked /\ PlacementParked
        /\ ReplayParked /\ RandomParked /\ GeneratorsParked /\ ParallaxParked
        /\ PlatformerBoxInit /\ CollisionParked /\ TimerParked /\ SnakeParked
        /\ SimonParked

SpecPlatformerBox == InitPlatformerBox /\ [][PlatformerNext]_vars

InitInputs == InitPuzzle \/ InitFishing

InputsNext == PuzzleNext \/ FishingNext

SpecInputs == InitInputs /\ [][InputsNext]_vars

(***************************************************************************)
(* Claims about the clicker's save protocol                                *)
(***************************************************************************)

\* C1: a save_write cut short by a power loss after some but not all of its
\* SRAM stores, begun on an SRAM that held no valid save, is read by the next
\* boot's save_load as "no save": save_valid = 0 and highscore = 0.
C1_TornSaveIsNoSave ==
    (ck_pc = "main" /\ ck_cut = "write_over_nosave")
        => (ck_save_valid = 0 /\ ck_highscore = 0)

\* C2: within one save_write the magic byte (offset 0) is stored after both
\* payload bytes (offsets 1 and 2), so it is the last store of the call.
C2_MagicWrittenLast ==
    \A i \in 1..Len(ck_sw_log) :
        ck_sw_log[i] = 0 => {1, 2} \subseteq { ck_sw_log[j] : j \in 1..(i - 1) }

(***************************************************************************)
(* Claims about the frame loop                                             *)
(***************************************************************************)

\* C3: the update step of a game writes no video state (scroll registers,
\* window or background tiles, sprite positions): whatever update changes
\* reaches the display hardware only in a later render.
C3_UpdateLeavesVideoAlone ==
    [][sh_pc = "update" => UNCHANGED << sh_SCY_REG, sh_win, sh_oam >>]_vars

\* C4: every iteration of a game's main loop runs wait-for-vblank, then
\* render, then handle_input, then update, in that order.
C4_LoopOrder ==
    [][/\ (sh_pc = "vbl" => sh_pc' = "render")
       /\ (sh_pc = "render" => sh_pc' = "input")
       /\ (sh_pc = "input" => sh_pc' = "update")
       /\ (sh_pc = "update" => sh_pc' = "vbl")]_vars

\* a save routine has run to its end, then save_load has run (at once, or in
\* game_init after a reset), and nothing has been stored in SRAM in between
SaveLoadedAfter(what) ==
    /\ ck_pc \in {"loaded", "main"}
    /\ ck_saved # << >>
    /\ ck_saved[1] = what

\* C17: once save_write has completed with game.highscore = x, a save_load
\* that follows, at once or after a reset, leaves game.highscore = x and
\* save_valid = 1, for every x tried: 0, 1, 0x42, 0xFF, 0x100, 9999, 0x42FF,
\* 0xFF42, 0xFFFF.
C17_SaveRoundTrip ==
    SaveLoadedAfter("write") =>
        /\ ck_highscore = ck_saved[2]
        /\ ck_save_valid = 1

\* 0x42FF written over an image without a save, the console reset, loaded
C17_Witness ==
    /\ SaveLoadedAfter("write")
    /\ ck_pc = "main"
    /\ ck_saved[2] = 17151
    /\ ck_cut = "between"
    /\ ~ck_sw_from

\* C18: once save_clear has completed, the magic byte and both payload
\* bytes in SRAM are 0 and the game holds highscore = 0, save_valid = 0; a
\* save_load that follows, at once or after a reset, reports no save
\* (save_valid = 0, highscore = 0), whatever SRAM held before.
C18_SaveClearZeroes ==
    (ck_saved # << >> /\ ck_saved[1] = "clear") =>
        /\ sram = [i \in 0..2 |-> 0]
        /\ ck_pc \in {"saved", "loaded", "main"} =>
               /\ ck_highscore = 0
               /\ ck_save_valid = 0

\* cleared, the console reset, loaded
C18_Witness ==
    /\ SaveLoadedAfter("clear")
    /\ ck_pc = "main"
    /\ ck_cut = "between"

\* C19: after save_load, if SRAM byte 0 is 0x42 the game holds the stored
\* payload (low byte + 256 * high byte) and save_valid = 1; for every other
\* value of byte 0 it holds highscore = 0 and save_valid = 0, whatever the
\* payload bytes are.
C19_MagicGatesLoad ==
    ck_pc \in {"loaded", "main"} =>
        IF sram[0] = 66
        THEN /\ ck_highscore = sram[1] + 256 * sram[2]
             /\ ck_save_valid = 1
        ELSE /\ ck_highscore = 0
             /\ ck_save_valid = 0

\* byte 0 one off the magic, a payload of 0xFFFF behind it
C19_Witness ==
    /\ ck_pc = "main"
    /\ sram[0] = 67
    /\ sram[1] = 255 /\ sram[2] = 255
    /\ ck_highscore = 0

(***************************************************************************)
(* Claims about input edge detection                                       *)
(***************************************************************************)

\* C5: the "pressed this frame" mask of a frame has a bit set exactly when
\* that bit is set in the mask read this frame and clear in the mask read
\* the frame before; so reads of 0x00, 0x10, 0x10, 0x00 on four successive
\* frames report A as pressed on the second of them and on no other.
C5_PressedIsRisingEdge ==
    /\ (fs_pc = "vbl" /\ fs_frames > 0) =>
           \A b \in 0..7 :
               BitSet(fs_joy_pressed, b) <=> (BitSet(fs_joy, b) /\ ~BitSet(fs_joy_before, b))
    /\ Len(fs_run) = Len(FsPattern) => fs_run = << FALSE, TRUE, FALSE, FALSE >>

C5_Witness ==
    /\ fs_pc = "vbl"
    /\ Len(fs_run) = Len(FsPattern)
    /\ fs_game.state = FS_STATE_IDLE

\* C6: in each game the stored previous mask of a frame is the current mask
\* of the frame before, whichever way the input handler is left (early
\* return, game-over frame, restart), the stored current mask is the mask
\* the controller returned, and the controller is read once per frame.
C6_PreviousIsLastCurrent ==
    /\ pz_reads <= 1
    /\ pz_pc = "update" =>
           /\ pz_reads = 1
           /\ pz_prev_input = pz_curr_before
           /\ pz_curr_input = pz_joy
    /\ fs_reads <= 1
    /\ (fs_pc = "vbl" /\ fs_frames > 0) =>
           /\ fs_reads = 1
           /\ fs_game.joypad_prev = fs_joy
    /\ (fs_pc = "update" /\ fs_frames > 1) => fs_game.joypad_prev = fs_joy

\* a restart: START pressed on a game-over frame, game_init run, handler left early
C6_Witness ==
    /\ pz_pc = "update"
    /\ pz_joy = J_START
    /\ pz_prev_input # J_START
    /\ pz_game.game_over = 0
    /\ pz_game.needs_redraw = 1
    /\ pz_game.grid = PzStack(GRID_HEIGHT, {}, {})

(***************************************************************************)
(* Claims about the puzzle's lock, line clear and placement check          *)
(***************************************************************************)

\* the occupied cells of a grid
PzCellCount(grid) == Cardinality({ rc \in PzRows \X PzCols : grid[rc[1]][rc[2]] # 0 })

\* the grid cells <<row, col>> under the set cells of a piece
PzPieceCells(p) ==
    { << p.y + rc[1], p.x + rc[2] >> :
        rc \in { q \in (0..3) \X (0..3) : PieceAt(p.type, p.rotation, q[1], q[2]) # 0 } }

\* a grid with a piece written into it
PzPlaced(grid, p) ==
    [r \in PzRows |-> [c \in PzCols |->
        IF << r, c >> \in PzPieceCells(p) THEN 1 ELSE grid[r][c]]]

PzFullRows(grid) == { r \in PzRows : \A c \in PzCols : grid[r][c] # 0 }

\* the latest game_update locked a piece and nothing has run since
PzJustLocked == pz_pc = "vbl" /\ pz_lock # << >>

\* the rows that lock completed
PzLockFull == PzFullRows(PzPlaced(pz_lock.grid, pz_lock.piece))

\* points for 1, 2, 3 and 4 lines
PzSchedule == << 100, 300, 500, 800 >>

\* C7: a lock that clears 1, 2, 3 or 4 lines adds 100, 300, 500 or 800 to
\* the score; a lock that clears no line leaves the score as it was.
C7_ScoreSchedule ==
    PzJustLocked =>
        LET n == Cardinality(PzLockFull)
        IN  pz_game.score =
                (pz_lock.score + (IF n = 0 THEN 0 ELSE PzSchedule[n])) % 65536

\* C8: a lock that clears L lines leaves as many occupied cells as there
\* were before it, plus the four cells of the piece, minus ten per line.
C8_LockConservesCells ==
    PzJustLocked =>
        PzCellCount(pz_game.grid) =
            PzCellCount(pz_lock.grid) + 4 - 10 * Cardinality(PzLockFull)

C8_Witness ==
    /\ PzJustLocked
    /\ Cardinality(PzLockFull) = 2
    /\ PzCellCount(pz_game.grid) > 0

\* C9: right after a lock every full row is gone, every other row has moved
\* down by the number of full rows that were below it with its contents and
\* order kept, the rows entering at the top are empty, and no row is full.
C9_FullRowsRemoved ==
    PzJustLocked =>
        LET placed == PzPlaced(pz_lock.grid, pz_lock.piece)
            full == PzFullRows(placed)
        IN  /\ \A s \in PzRows \ full :
                   pz_game.grid[s + Cardinality({ f \in full : f > s })] = placed[s]
            /\ \A r \in PzRows :
                   r < Cardinality(full) => pz_game.grid[r] = [c \in PzCols |-> 0]
            /\ PzFullRows(pz_game.grid) = {}

\* three rows cleared beneath a row that keeps its blocks
C9_Witness ==
    /\ PzJustLocked
    /\ Cardinality(PzLockFull) = 3
    /\ \E c \in PzCols : pz_game.grid[GRID_HEIGHT - 1][c] # 0

\* the placement rule: every set cell is in columns 0..9 and is above the
\* top of the grid or on a free grid cell
PzFits(grid, px, py, type, rotation) ==
    \A rc \in PzPieceCells([type |-> type, rotation |-> rotation, x |-> px, y |-> py]) :
        /\ rc[2] \in PzCols
        /\ \/ rc[1] < 0
           \/ rc[1] \in PzRows /\ grid[rc[1]][rc[2]] = 0

\* C10: can_place accepts (returns 1) exactly when the piece fits by the
\* placement rule, and rejects (returns 0) in every other case.
C10_CanPlaceIsPlacementRule ==
    cp_pc = "done" =>
        /\ cp_ret \in {0, 1}
        /\ cp_ret = 1 <=>
               PzFits(cp_grid, cp_args.px, cp_args.py, cp_args.type, cp_args.rotation)

\* accepted with a cell above the top of a grid that holds blocks
C10_Witness ==
    /\ cp_pc = "done"
    /\ cp_ret = 1
    /\ cp_args.py = -1
    /\ cp_args.type = PIECE_T /\ cp_args.rotation = 1
    /\ PzCellCount(cp_grid) > 0

(***************************************************************************)
(* Claims about the puzzle's gravity, spawn and moves                      *)
(***************************************************************************)

\* the drop interval in force: 3 frames while DOWN is held, 30 otherwise
PzInterval == IF Held(pz_curr_input, J_DOWN) THEN DROP_SPEED_FAST ELSE DROP_SPEED_NORMAL

\* the current piece one row further down
PzBelow(p) == [p EXCEPT !.y = p.y + 1]

\* C11: in a game_update of a game that is not over, the drop interval is 30,
\* or 3 while DOWN is held; a timer that is still short of the interval after
\* being increased by one keeps that value and the piece, the grid and the
\* score stay as they are; a timer that reaches the interval is reset to 0
\* and the piece goes down by exactly one row, nothing else changing, if it
\* fits there; if it does not fit, the piece is locked in that same update,
\* where it was.
C11_GravityTimer ==
    [][(pz_pc = "update" /\ pz_game.game_over = 0) =>
        LET g == pz_game
            t == g.drop_timer + 1
            below == PzBelow(g.current)
        IN  /\ g.drop_speed = PzInterval
            /\ t < PzInterval => /\ pz_game' = [g EXCEPT !.drop_timer = t]
                                 /\ pz_lock' = << >>
            /\ t >= PzInterval =>
                 /\ pz_game'.drop_timer = 0
                 /\ IF PzFits(g.grid, below.x, below.y, below.type, below.rotation)
                    THEN /\ pz_game' = [g EXCEPT !.drop_timer = 0, !.current = below]
                         /\ pz_lock' = << >>
                    ELSE /\ pz_lock' # << >>
                         /\ pz_lock'.piece = g.current
                         /\ pz_lock'.grid = g.grid
                         /\ PzCellCount(pz_game'.grid) =
                                PzCellCount(g.grid) + 4
                                    - 10 * (pz_game'.lines - g.lines)]_vars

\* a soft drop: DOWN held, the timer has reached 3 and the piece went down
C11_Witness ==
    /\ pz_pc = "vbl"
    /\ pz_game.game_over = 0
    /\ pz_game.drop_speed = DROP_SPEED_FAST
    /\ pz_game.drop_timer = 0
    /\ pz_lock = << >>
    /\ pz_game.current.y = SPAWN_Y + 1

\* C12: every lock is followed, in the same update, by a new piece of the
\* announced type at x = 3, y = 0, rotation 0; the game is over after the
\* lock exactly when that piece does not fit there in the grid the lock and
\* its line clears left, and goes on (game_over stays 0) when it fits.
C12_SpawnAfterLock ==
    [][(pz_pc = "update" /\ pz_lock' # << >>) =>
        LET n == pz_game'
        IN  /\ n.current = [type |-> pz_game.next_piece, rotation |-> 0, x |-> 3, y |-> 0]
            /\ n.game_over =
                   IF PzFits(n.grid, 3, 0, pz_game.next_piece, 0) THEN 0 ELSE 1]_vars

\* a lock on top of a tower that leaves no room for the next piece
C12_Witness ==
    /\ PzJustLocked
    /\ pz_game.game_over = 1
    /\ pz_game.current.x = SPAWN_X /\ pz_game.current.y = SPAWN_Y
    /\ pz_game.grid[1][3] # 0

\* button b goes from released to held in this run of the input handler
PzEdge(b) == pz_pc = "input" /\ Held(pz_curr_input', b) /\ ~Held(pz_curr_input, b)

\* C13: while the game is not over, a frame whose only new press is A turns
\* the piece to rotation (r + 1) mod 4, x and y kept, when the piece fits so
\* at its place, and leaves the piece exactly as it was when it does not;
\* in both cases x, y and the grid are unchanged.
C13_RotateInPlace ==
    [][(PzEdge(J_A) /\ ~PzEdge(J_LEFT) /\ ~PzEdge(J_RIGHT) /\ pz_game.game_over = 0) =>
        LET p == pz_game.current
            r == (p.rotation + 1) % 4
        IN  /\ pz_game'.current =
                   IF PzFits(pz_game.grid, p.x, p.y, p.type, r)
                   THEN [p EXCEPT !.rotation = r]
                   ELSE p
            /\ pz_game'.current.x = p.x
            /\ pz_game'.current.y = p.y
            /\ pz_game'.grid = pz_game.grid]_vars

\* a rotate press that was blocked: the piece fits in neither the rotation
\* after its own nor the one before
C13_Witness ==
    /\ pz_pc = "update"
    /\ pz_curr_input = J_A /\ pz_prev_input = 0
    /\ pz_game.game_over = 0
    /\ LET p == pz_game.current
       IN  /\ ~PzFits(pz_game.grid, p.x, p.y, p.type, (p.rotation + 1) % 4)
           /\ ~PzFits(pz_game.grid, p.x, p.y, p.type, (p.rotation + 3) % 4)

\* C14: while the game is not over, a run of the input handler moves the
\* piece one column left on a new LEFT press and one column right on a new
\* RIGHT press, each only if the piece fits there, and by nothing else: a
\* direction that is merely still held moves nothing, the row is never
\* changed, and with no new LEFT, RIGHT or A press the piece stays exactly as
\* it is.  DOWN alone acts while held: the drop interval is 3 on every frame
\* whose mask has DOWN and 30 on every other.
C14_MoveOncePerPress ==
    [][(pz_pc = "input" /\ pz_game.game_over = 0) =>
        LET p == pz_game.current
            x1 == IF PzEdge(J_LEFT) /\ PzFits(pz_game.grid, p.x - 1, p.y, p.type, p.rotation)
                  THEN p.x - 1 ELSE p.x
            x2 == IF PzEdge(J_RIGHT) /\ PzFits(pz_game.grid, x1 + 1, p.y, p.type, p.rotation)
                  THEN x1 + 1 ELSE x1
        IN  /\ pz_game'.current.x = x2
            /\ pz_game'.current.y = p.y
            /\ (~PzEdge(J_LEFT) /\ ~PzEdge(J_RIGHT)) => pz_game'.current.x = p.x
            /\ (~PzEdge(J_LEFT) /\ ~PzEdge(J_RIGHT) /\ ~PzEdge(J_A)) =>
                   pz_game'.current = p
            /\ pz_game'.drop_speed =
                   IF Held(pz_curr_input', J_DOWN) THEN DROP_SPEED_FAST
                   ELSE DROP_SPEED_NORMAL]_vars

\* LEFT held for a second frame: the fresh piece went from column 3 to
\* column 2 on the press and stays there, with room on its left
C14_Witness ==
    /\ pz_pc = "update"
    /\ pz_frames = 1
    /\ pz_curr_input = J_LEFT /\ pz_prev_input = J_LEFT
    /\ pz_game.game_over = 0
    /\ pz_game.drop_timer = 1
    /\ pz_game.current.x = SPAWN_X - 1
    /\ pz_game.current.y = SPAWN_Y
    /\ PzFits(pz_game.grid, pz_game.current.x - 1, pz_game.current.y,
              pz_game.current.type, pz_game.current.rotation)

(***************************************************************************)
(* Claim about replaying the puzzle                                        *)
(***************************************************************************)

PzMirror(g) ==
    [type |-> g.prev_type, rotation |-> g.prev_rotation, x |-> g.prev_x, y |-> g.prev_y]

\* what the piece update of game_render does to the tile map and the mirror:
\* every playfield cell under the current piece shows the active tile; every
\* other cell under the piece of the mirror shows what the grid holds there;
\* every other cell is as it was, or as the grid has it after a full redraw;
\* the walls are untouched; the mirror then names the current piece
PzRenderEffect ==
    LET g == pz_game
        cur == PzPieceCells(g.current)
        old == PzPieceCells(PzMirror(g))
    IN  /\ \A r \in PzRows, c \in PzCols :
               LET cell == << GRID_OFFSET_X + c, GRID_OFFSET_Y + r >>
               IN  pz_bkg'[cell] =
                       IF << r, c >> \in cur THEN PZ_TILE_ACTIVE
                       ELSE IF << r, c >> \in old \/ g.needs_redraw # 0
                       THEN PzGridTile(g.grid, r, c)
                       ELSE pz_bkg[cell]
        /\ \A cell \in PzBkgCells : ~PzInField(cell) => pz_bkg'[cell] = pz_bkg[cell]
        /\ PzMirror(pz_game') = g.current

\* C16: on each frame on which the game is not over, game_render clears the
\* cells of the previous footprint that the current footprint does not
\* cover, draws the cells of the current piece, and leaves the mirror
\* (position, type, rotation) equal to the current piece.
C16_RenderWhilePlaying ==
    [][(pz_pc = "render" /\ pz_game.game_over = 0) => PzRenderEffect]_vars

\* C16 as stated, for every frame, the frames after the game is over included
C16_RenderEveryFrame ==
    [][pz_pc = "render" => PzRenderEffect]_vars

\* a fresh piece moved one column left and drawn there: the cells it left
\* show the empty tile again
C16_Witness ==
    /\ pz_pc = "input"
    /\ pz_frames = 1
    /\ pz_curr_input = J_LEFT
    /\ pz_game.game_over = 0
    /\ pz_game.current.x = SPAWN_X - 1
    /\ pz_game.current.y = SPAWN_Y
    /\ LET left == PzPieceCells([pz_game.current EXCEPT !.x = SPAWN_X])
                       \ PzPieceCells(pz_game.current)
       IN  /\ left # {}
           /\ \A rc \in left :
                  pz_bkg[<< GRID_OFFSET_X + rc[2], GRID_OFFSET_Y + rc[1] >>] = PZ_TILE_EMPTY

(***************************************************************************)
(* Claim about the generator of the fishing and maze games                 *)
(***************************************************************************)

\* C20: a call of random() leaves the 16-bit state at
\* (s * 1103515245 + 12345) mod 2^16, s being the state it found (one
\* multiply-add per call), and returns the upper 15 bits of the new state,
\* a value in 0..32767.
C20_LcgUpper15 ==
    rn_calls > 0 =>
        /\ rn_state = (rn_before * (1103515245 % 65536) + 12345) % 65536
        /\ rn_ret = rn_state \div 2
        /\ rn_ret \in 0..32767

(***************************************************************************)
(* Claims about the generators of the games                                *)
(***************************************************************************)
\* C21: a game's random-number function is a pure function of the
\* generator's state: two generators seeded identically hold the same state
\* and have returned the same values after the same number of calls,
\* whatever else their runs were doing at each call.
C21_PureOfState ==
    gn_pc = "call" => gn_a = gn_b

\* C22: a game's generator state is written only by generator calls, by one
\* reseed from the frame counter and by mixing in the input mask, and no
\* other data is ever mixed into it: two runs whose generators hold the
\* same state, on the same frames and under the same controller masks,
\* still hold the same state after the frame handlers have run.
C22_OnlyFramesAndInputs ==
    gn_pc = "frame" => gn_a.state = gn_b.state

(***************************************************************************)
(* Claims about the parallax demo                                          *)
(***************************************************************************)
\* a step in which lcd_isr() runs
PxIsrStep == px_irq /\ ~px_irq'

\* C23: the scanline interrupt handler writes only the scroll register,
\* the scanline-compare register and its own layer index: a run of the
\* handler leaves the background map, the sprite table and the tile data,
\* and every other variable of the program, as they were.
C23_IsrWritesOnlyScroll ==
    [][PxIsrStep =>
          /\ px_vram' = px_vram
          /\ px_layer' = px_layer
          /\ px_game' = px_game
          /\ px_input' = px_input]_vars

\* the handler has served the last boundary of a frame: the ground scroll
\* of a scrolled picture is in SCX_REG and the first boundary is rearmed
C23_Witness ==
    /\ px_pc # "off"
    /\ Len(px_fired) = 3
    /\ px_regs.SCX_REG = px_layer.ground.v
    /\ px_regs.SCX_REG > 0
    /\ px_regs.LYC_REG = MOUNTAIN_START
    /\ px_regs.current_layer = 0

\* a frame has been displayed in full and the vertical blank has begun
PxFrameShown == px_pc # "off" /\ px_LY = SCREEN_END /\ px_frames > 0

\* C24: in each displayed frame the handler fires exactly three times, at
\* scanlines 32, 64 and 96 in that order, and the scroll in effect is the
\* sky value on lines 0-31, the mountain value on 32-63, the hills value on
\* 64-95 and the ground value on 96-143.
C24_ThreeBands ==
    PxFrameShown =>
        /\ Len(px_fired) = 3
        /\ px_fired[1].line = MOUNTAIN_START /\ px_fired[1].layer = 0
        /\ px_fired[2].line = HILLS_START /\ px_fired[2].layer = 1
        /\ px_fired[3].line = GROUND_START /\ px_fired[3].layer = 2
        /\ Len(px_shown) = SCREEN_END
        /\ \A line \in 0..(SCREEN_END - 1) :
              px_shown[line + 1] =
                  IF line < MOUNTAIN_START THEN px_game.scroll_sky
                  ELSE IF line < HILLS_START THEN px_fired[1].read.v
                  ELSE IF line < GROUND_START THEN px_fired[2].read.v
                  ELSE px_fired[3].read.v

\* a frame of a scrolled picture has been displayed: four different
\* scrolls were in effect down the screen
C24_Witness ==
    /\ PxFrameShown
    /\ px_shown[1] = 0
    /\ px_shown[MOUNTAIN_START + 1] > 0
    /\ px_shown[HILLS_START + 1] > px_shown[MOUNTAIN_START + 1]
    /\ px_shown[SCREEN_END] > px_shown[HILLS_START + 1]

\* C30: the three layer scrolls the handler applies within one displayed
\* frame all derive from the same master scroll_x, that of one
\* game_update() call, wherever the interrupts fall relative to
\* game_update().
C30_OneUpdatePerFrame ==
    px_pc # "off" =>
        \A i \in DOMAIN px_fired, j \in DOMAIN px_fired :
            px_fired[i].read.from = px_fired[j].read.from

(***************************************************************************)
(* Claims about the platformer                                             *)
(***************************************************************************)
\* a loop body has run to its end
PfFrameDone == pf_pc = "render" /\ pf_frames > 0

\* the tile row whose top boundary the player's bottom edge is at or in
PfFootRow == (pf_game.player_y + PF_PLAYER_HEIGHT) \div 8

\* C25: when the player's downward move is stopped by a solid tile, the
\* player's bottom edge is exactly on the top boundary of that tile, with
\* no overlap and no gap, and the vertical velocity is zero in that frame.
C25_LandsFlush ==
    (PfFrameDone /\ pf_landed = 1) =>
        /\ pf_game.velocity_y = 0
        /\ pf_game.player_y + PF_PLAYER_HEIGHT = PfFootRow * 8
        /\ \/ is_solid(pf_game.player_x \div 8, PfFootRow)
           \/ is_solid((pf_game.player_x + PF_PLAYER_WIDTH - 1) \div 8, PfFootRow)

\* a fall from the air was stopped short of where the velocity led
C25_Witness ==
    /\ PfFrameDone
    /\ pf_landed = 1
    /\ pf_start.on_ground = 0
    /\ pf_start.velocity_y > 0
    /\ pf_game.player_y > pf_start.player_y
    /\ pf_game.player_y < pf_start.player_y + pf_start.velocity_y

\* on_ground went from true to false over the frame
PfLeftGround == pf_start.on_ground = 1 /\ pf_game.on_ground = 0

\* C26: after the player lands on_ground is true on that frame, and it
\* stays true until a frame in which the player moves downward by a
\* nonzero distance; no other event clears it.
C26_GroundUntilFall ==
    PfFrameDone =>
        /\ pf_landed = 1 => pf_game.on_ground = 1
        /\ PfLeftGround => pf_game.player_y > pf_start.player_y

\* C26, amended: on_ground stays true until a frame in which the player
\* moves downward by a nonzero distance, starts a jump with a fresh press
\* of A, or the game is restarted with a fresh press of START.
C26_GroundUntilFallOrJump ==
    PfFrameDone =>
        /\ pf_landed = 1 => pf_game.on_ground = 1
        /\ PfLeftGround =>
              \/ pf_game.player_y > pf_start.player_y
              \/ Held(pf_input.curr, J_A) /\ ~Held(pf_input.prev, J_A)
              \/ Held(pf_input.curr, J_START) /\ ~Held(pf_input.prev, J_START)

\* the player landed from the air and then walked a frame on the ground
C26_Witness ==
    /\ PfFrameDone
    /\ pf_frames >= 2
    /\ pf_start.on_ground = 1
    /\ pf_game.on_ground = 1
    /\ pf_game.player_x # pf_start.player_x
    /\ pf_game.player_y = pf_start.player_y

(***************************************************************************)
(* Claims about the shooter's rectangle test                               *)
(***************************************************************************)
\* the pixel columns (or rows) a side of length w starting at a covers
PixelsOf(a, w) == a..(a + w - 1)

\* the two rectangles of the call have a pixel in common
RectsSharePixel ==
    /\ PixelsOf(cc_args.x1, cc_args.w1) \cap PixelsOf(cc_args.x2, cc_args.w2) # {}
    /\ PixelsOf(cc_args.y1, cc_args.h1) \cap PixelsOf(cc_args.y2, cc_args.h2) # {}

PzFrameEnd == pz_pc = "vbl" /\ pz_game.game_over = 0

\* C28: at the end of every frame in which the game is not over, the
\* falling piece is in a position the placement check accepts: all its
\* cells lie in columns 0..9 and rows 0..17 and none coincides with an
\* occupied grid cell.
C28_PieceAlwaysFits ==
    PzFrameEnd =>
        /\ can_place(pz_game.grid, pz_game.current.x, pz_game.current.y,
                     pz_game.current.type, pz_game.current.rotation) = 1
        /\ \A rc \in PzPieceCells(pz_game.current) :
              /\ rc[2] \in PzCols
              /\ rc[1] \in PzRows
              /\ pz_game.grid[rc[1]][rc[2]] = 0

\* a frame ended after LEFT was pressed against the wall or the stack: the
\* piece stands where moving one more column left would not fit
C28_Witness ==
    /\ PzFrameEnd
    /\ pz_frames >= 1
    /\ pz_curr_input = J_LEFT
    /\ pz_prev_input = 0
    /\ can_place(pz_game.grid, pz_game.current.x - 1, pz_game.current.y,
                 pz_game.current.type, pz_game.current.rotation) = 0

\* game_render has just run with the game not over
PzShown == pz_pc = "input" /\ pz_game.game_over = 0

PzTileAt(r, c) == pz_bkg[<< GRID_OFFSET_X + c, GRID_OFFSET_Y + r >>]

\* C29: after every render while the game is not over, each playfield cell
\* of the background shows the active-piece tile if and only if it belongs
\* to the current falling piece, and otherwise shows the block tile if and
\* only if the grid cell is occupied; no stale piece tile remains.
C29_PictureMatchesGame ==
    PzShown =>
        \E piece \in { PzPieceCells(pz_game.current) } :
            \A r \in PzRows, c \in PzCols :
                /\ PzTileAt(r, c) = PZ_TILE_ACTIVE <=> << r, c >> \in piece
                /\ << r, c >> \notin piece
                      => (PzTileAt(r, c) = PZ_TILE_BLOCK <=> pz_game.grid[r][c] # 0)

\* the render after a lock: the grid is no longer one play started from, it
\* holds blocks that all show the block tile, and the fresh piece stands at
\* the spawn position showing the active tile
C29_Witness ==
    /\ PzShown
    /\ pz_frames >= 1
    /\ pz_game.grid \notin PuzzleGrids
    /\ pz_game.current.x = SPAWN_X
    /\ pz_game.current.y = SPAWN_Y
    /\ \E r \in PzRows, c \in PzCols : pz_game.grid[r][c] # 0
    /\ \A r \in PzRows, c \in PzCols :
          pz_game.grid[r][c] # 0 => PzTileAt(r, c) = PZ_TILE_BLOCK
    /\ \A rc \in PzPieceCells(pz_game.current) :
          PzTileAt(rc[1], rc[2]) = PZ_TILE_ACTIVE

(***************************************************************************)
(* Claims about the timer game's tick counter                              *)
(***************************************************************************)
\* the main context is in the middle of an access of timer_ticks
TmInAccess == tm_pc \in {"hi_reset", "hi_read", "stir2", "up_read", "up_reset"}

\* C31: every main-context read or write of the tick counter shared with
\* the timer interrupt is performed with interrupts disabled, so the main
\* loop never uses a value that the interrupt handler can change during
\* the access: while an access is under way interrupts are off, and the
\* value an access obtained or stored is one the counter held.
C31_AccessesMasked ==
    tm_pc # "off" =>
        /\ TmInAccess => ~tm_ime
        /\ tm_access # << >> => tm_access.v \in tm_access.held

(***************************************************************************)
(* Claims about snake                                                      *)
(***************************************************************************)
\* C32: the snake's circular buffer stays consistent in every reachable
\* state, for every length from SNAKE_START_LENGTH up to SNAKE_MAX_LENGTH:
\* 1 <= length <= 64 and head_idx = (tail_idx + length - 1) mod 64 after
\* every move, whether or not the move eats food.
C32_BufferConsistent ==
    sn_pc = "run" =>
        /\ sn_game.length >= 1
        /\ sn_game.length <= SNAKE_MAX_LENGTH
        /\ sn_game.head_idx =
              (sn_game.tail_idx + sn_game.length - 1) % SNAKE_MAX_LENGTH

\* C33: food is always spawned on an empty cell: after every move of the
\* snake that completes without game over, and after game_init, the food
\* position does not coincide with any segment of the snake, head included.
C33_FoodOffSnake ==
    (sn_pc = "run" /\ sn_game.game_over = 0) =>
        ~SnAmong(sn_game, sn_game.length, sn_game.food)

\* the direction opposite to `dir'
SnOpposite(dir) ==
    IF dir = DIR_UP THEN DIR_DOWN
    ELSE IF dir = DIR_DOWN THEN DIR_UP
    ELSE IF dir = DIR_LEFT THEN DIR_RIGHT
    ELSE IF dir = DIR_RIGHT THEN DIR_LEFT
    ELSE DIR_NONE

\* C34: the snake never makes a 180-degree turn: at every move the applied
\* direction is not the opposite of the direction of the previous move,
\* for every sequence of D-pad inputs received between two moves.
C34_NoReversal ==
    sn_moved # << >> => sn_moved.to # SnOpposite(sn_moved.from)

\* a move made after a turn was buffered and the opposite of the old
\* direction was pressed last: the snake moving right turned up, the press
\* of LEFT was refused
C34_Witness ==
    /\ sn_moved # << >>
    /\ sn_moved.from = DIR_RIGHT
    /\ sn_moved.to = DIR_UP
    /\ sn_input.prev = J_UP
    /\ sn_input.curr = J_LEFT
    /\ sn_steps = 3

(***************************************************************************)
(* Claims about the clicker's clear and its display                        *)
(***************************************************************************)
\* the latest controller read was a press of SELECT, save_clear() has run
\* to its end and no later read has been made
CkClearedNoPressSince ==
    /\ Held(ck_curr_input, J_SELECT)
    /\ ~Held(ck_prev_input, J_SELECT)
    /\ \/ ck_pc \in {"update", "render", "vbl", "input"}
       \/ ck_pc \in {"sw0", "sw1", "sw2"} /\ ck_ret = "render"

\* C35: after a SELECT press has cleared the save, a reset that occurs
\* before any further button press finds no valid save, whatever the count
\* was at the time of the clear: a reset keeps the SRAM bytes and save_load
\* at the next boot reports SaveLoadValid of them, so while no further
\* press has been made that value is 0.
C35_ClearSurvivesReset ==
    CkClearedNoPressSince => SaveLoadValid(sram) = 0

\* C36: after every render of the clicker the four count digits on screen
\* equal game.count and the four high-score digits equal game.highscore,
\* for every count in 0..9999: the change detection never skips a redraw
\* while a displayed value differs from the state.
C36_DisplayMatchesState ==
    ck_pc = "vbl" =>
        /\ ck_bkg.count = Digits4(ck_count)
        /\ ck_bkg.high = Digits4(ck_highscore)


(***************************************************************************)
(* Simon: the lit buttons and the input timeout                            *)
(***************************************************************************)
\* the buttons drawn lit on the screen
SiDrawnLit == { k \in SiButtons : si_bkg.lit[k] }

\* C37: the set of buttons drawn lit on the screen is always empty when
\* lit_button is 0xFF and otherwise exactly the one button lit_button names,
\* whatever the player presses and when.
C37_OneLitButton ==
    si_pc # "off" =>
        SiDrawnLit = IF si_game.lit_button = NO_BUTTON
                     THEN {}
                     ELSE {si_game.lit_button}

\* C38: in PLAYER_INPUT a run of INPUT_TIMEOUT frames without a new D-pad
\* press ends in GAME_OVER, a D-pad press sets the window back to
\* INPUT_TIMEOUT frames, and the game is never in PLAYER_INPUT with
\* INPUT_TIMEOUT or more such frames behind it.
C38_InputTimeout ==
    si_pc # "off" =>
        /\ (si_pc = "input" /\ si_quiet >= INPUT_TIMEOUT)
               => si_game.state = SI_STATE_GAME_OVER
        /\ si_game.state = SI_STATE_PLAYER_INPUT => si_quiet < INPUT_TIMEOUT
        /\ (si_pc = "update" /\ si_frame.press
              /\ si_frame.began = SI_STATE_PLAYER_INPUT
              /\ si_game.state = SI_STATE_PLAYER_INPUT)
               => si_game.input_timer = INPUT_TIMEOUT
        /\ (si_pc = "input" /\ si_game.state = SI_STATE_PLAYER_INPUT)
               => si_game.input_timer + si_quiet >= INPUT_TIMEOUT - 1

\* a whole window ran out: INPUT_TIMEOUT quiet frames, then GAME OVER
C38_Witness ==
    /\ si_pc = "input"
    /\ si_quiet = INPUT_TIMEOUT
    /\ si_game.state = SI_STATE_GAME_OVER
    /\ si_bkg.msg = MSG_GAME_OVER


(***************************************************************************)
(* The platformer: the player's box and the solid tiles                    *)
(***************************************************************************)
\* the solid tiles of the level map, as << column, row >>
PfSolidTiles ==
    { t \in (0 .. 19) \X (0 .. 17) : level_map[t[2] + 1][t[1] + 1] = 1 }

\* the 8x8 box with its top left pixel at (x, y) and the 8x8 tile t have a
\* pixel in common
PfBoxOverTile(x, y, t) ==
    /\ x < 8 * t[1] + 8
    /\ 8 * t[1] < x + PF_PLAYER_WIDTH
    /\ y < 8 * t[2] + 8
    /\ 8 * t[2] < y + PF_PLAYER_HEIGHT

\* C39: at the end of every frame the player's 8x8 box overlaps no solid
\* tile of the level map, whatever the inputs were.
C39_BoxClearOfSolid ==
    PfFrameDone =>
        \A t \in PfSolidTiles :
            ~PfBoxOverTile(pf_game.player_x, pf_game.player_y, t)

\* a frame in the air in which RIGHT was held and a solid tile beside the
\* player kept the player from moving right
C39_Witness ==
    /\ PfFrameDone
    /\ Held(pf_input.curr, J_RIGHT) /\ ~Held(pf_input.curr, J_LEFT)
    /\ ~Held(pf_input.curr, J_START)
    /\ pf_start.on_ground = 0
    /\ pf_start.player_x < MAX_X - PF_PLAYER_SPEED
    /\ pf_game.player_x = pf_start.player_x
    /\ \E t \in PfSolidTiles :
          PfBoxOverTile(pf_start.player_x + PF_PLAYER_SPEED + 1,
                        pf_start.player_y, t)

=============================================================================
